---- MODULE Spec2Model ----
(***************************************************************************)
(* State-machine model of the fissionmall FRAME pallets                     *)
(*   c2c-order, order, c2c-token, product, institution.                     *)
(* The pallets share no storage; a behaviour exercises one of them.         *)
(*                                                                          *)
(* Every dispatchable is one action.  Its body is translated statement by   *)
(* statement into an operator  *_body(S, ...)  that threads the pallet's    *)
(* storage S through the writes in source order and stops at the first      *)
(* early return, so the storage a failing body leaves behind is the storage *)
(* with the writes made so far.  #[pallet::call] runs every dispatchable in *)
(* a storage layer: with_storage_layer keeps the body's writes when it      *)
(* returns Ok and discards them when it returns Err.  A call that returns  *)
(* Err therefore leaves no trace in storage (its events are storage too):   *)
(* `last` and `events` describe the last call that committed.               *)
(***************************************************************************)
EXTENDS Integers, Sequences, FiniteSets, TLC

(***************************************************************************)
(* Bounds of the model.                                                     *)
(***************************************************************************)
\* Config::MaxOrderCodeLength etc. are runtime parameters (Get<u32>).
MaxOrderCodeLength == 1
MaxMemberCodeLength == 1
MaxInstitutionIdLength == 1
\* The bucket capacities ConstU32<1000> / ConstU32<10000>, scaled down so
\* that a full bucket is reachable.
UserOrdersCap == 1
InstitutionOrdersCap == 1
OrdersByStatusCap == 1
MaxOrderItems == 2
MaxTokenCodeLength == 1
MaxProductCodeLength == 1
MaxInstitutionCodeLength == 1
MaxNameLength == 1
MaxCategoryLength == 1
MaxBrandLength == 1
MaxAuthorizedMemberGroup == 1
MaxAuthorizedGroups == 1
MaxDescriptionLength == 1
MaxImageUrlLength == 1
MaxDetailImages == 1
MaxResponsiblePersonLength == 1
MaxBusinessScopeLength == 1
MaxContractLength == 1
MaxCustomAreaLength == 1
MaxPaymentLength == 1
InstitutionTokensCap == 1   \* ConstU32<10000> scaled
UserTokensCap == 1          \* ConstU32<1000> scaled
InstitutionProductsCap == 1 \* ConstU32<10000> scaled
\* u32::MAX, scaled: the largest value of an amount, weight or quantity.
U32_MAX == 3
MaxExpressCompanyLength == 1
MaxExpressNumberLength == 1
\* Highest block number the host reaches.
MaxBlock == 1
\* The index buckets hold 1000 or 10000 keys.  With the scaled capacities a
\* bucket is full after one key; the wide specifications give every bucket
\* room for this many more, so that it can hold both keys of the model.
MaxHeadroom == 1
\* Most records a store holds at once in the specification of the record
\* pallets.
MaxRecords == 1

(***************************************************************************)
(* Inputs.                                                                  *)
(***************************************************************************)
AccountId == {"alice", "bob"}

\* A byte string of length n.
Bytes(n) == [i \in 1..n |-> 1]

\* Vec<u8> arguments: empty, exactly the maximum length, one byte too long.
VecInputs(max) == {Bytes(0), Bytes(max), Bytes(max + 1)}

OrderCodeInputs == VecInputs(MaxOrderCodeLength)
MemberCodeInputs == VecInputs(MaxMemberCodeLength)
InstitutionIdInputs == VecInputs(MaxInstitutionIdLength)

\* The values a BoundedVec<u8, max> built from those inputs can hold.
Bounded(inputs, max) == {v \in inputs : Len(v) <= max}

OrderCode == Bounded(OrderCodeInputs, MaxOrderCodeLength)
MemberCode == Bounded(MemberCodeInputs, MaxMemberCodeLength)
InstitutionId == Bounded(InstitutionIdInputs, MaxInstitutionIdLength)

\* u8 status codes: the six valid ones and one out of range.
StatusInputs == 0..6
\* Arguments <<order_code, status>> of update_order_status: every status code
\* for every well-formed order code, and one over-long order code.
StatusCallInputs ==
    (OrderCode \X StatusInputs) \cup {<<Bytes(MaxOrderCodeLength + 1), 1>>}

\* Arguments of c2c-order create_order,
\*   <<order_code, member_code, institution_code, direction,
\*     transaction_amount, total_amount>>:
\* every combination of well-formed identifiers with direction UserBuy and
\* amounts (1, 1), and for every order code the calls with one argument
\* changed to an invalid one.
C2cCreateInputs ==
    (OrderCode \X MemberCode \X InstitutionId \X {1} \X {1} \X {1})
    \cup {<<Bytes(MaxOrderCodeLength + 1), Bytes(0), Bytes(0), 1, 1, 1>>}
    \cup UNION {{<<c, Bytes(MaxMemberCodeLength + 1), Bytes(0), 1, 1, 1>>,
                 <<c, Bytes(0), Bytes(MaxInstitutionIdLength + 1), 1, 1, 1>>,
                 <<c, Bytes(0), Bytes(0), 2, 1, 1>>,
                 <<c, Bytes(0), Bytes(0), 1, 0, 1>>,
                 <<c, Bytes(0), Bytes(0), 1, 2, 1>>} : c \in OrderCode}

\* Option<T>: None, Some(v)
None == <<>>
Some(v) == <<v>>

\* ConstU32 bounds of the plain order pallet's contact and item fields.
MaxPhoneLength == 32
MaxEmailLength == 128
MaxAddressLength == 512
MaxItemProductCodeLength == 64

\* Order items (product_code, quantity, price_per_unit, weight): a well-formed
\* one and one whose product code is too long.
GoodItem == [product_code |-> Bytes(1), quantity |-> 1, price_per_unit |-> 1, weight |-> 1]
LongCodeItem == [GoodItem EXCEPT !.product_code = Bytes(MaxItemProductCodeLength + 1)]

\* Arguments of plain-order create_order,
\*   <<order_code, member_code, institution_code, freight, phone, email,
\*     address, items>>:
\* every combination of well-formed identifiers with one fixed well-formed
\* rest, and for every order code the calls with one argument changed to an
\* invalid one.
OrdCreateInputs ==
    (OrderCode \X MemberCode \X InstitutionId \X {1} \X {None} \X {None} \X {None}
        \X {<<GoodItem>>})
    \cup {<<Bytes(MaxOrderCodeLength + 1), Bytes(0), Bytes(0), 1, None, None, None, <<GoodItem>>>>}
    \cup UNION {{<<c, Bytes(MaxMemberCodeLength + 1), Bytes(0), 1, None, None, None, <<GoodItem>>>>,
                 <<c, Bytes(0), Bytes(MaxInstitutionIdLength + 1), 1, None, None, None, <<GoodItem>>>>,
                 <<c, Bytes(0), Bytes(0), 1, Some(Bytes(MaxPhoneLength + 1)), None, None, <<GoodItem>>>>,
                 <<c, Bytes(0), Bytes(0), 1, None, Some(Bytes(MaxEmailLength + 1)), None, <<GoodItem>>>>,
                 <<c, Bytes(0), Bytes(0), 1, None, None, Some(Bytes(MaxAddressLength + 1)), <<GoodItem>>>>,
                 <<c, Bytes(0), Bytes(0), 1, None, None, None, <<>>>>,
                 <<c, Bytes(0), Bytes(0), 1, None, None, None, <<LongCodeItem>>>>,
                 <<c, Bytes(0), Bytes(0), 1, None, None, None,
                   [i \in 1..(MaxOrderItems + 1) |-> GoodItem]>>} : c \in OrderCode}

\* Arguments <<order_code, express_company, express_number>> of
\* update_express_info.
OrdExpressInputs ==
    (OrderCode \X {Bytes(MaxExpressCompanyLength)} \X {Bytes(MaxExpressNumberLength)})
    \cup {<<Bytes(MaxOrderCodeLength + 1), Bytes(0), Bytes(0)>>}
    \cup UNION {{<<c, Bytes(MaxExpressCompanyLength + 1), Bytes(0)>>,
                 <<c, Bytes(0), Bytes(MaxExpressNumberLength + 1)>>} : c \in OrderCode}

\* Identifier arguments of the token, product and institution pallets.
TokenCode == Bounded(VecInputs(MaxTokenCodeLength), MaxTokenCodeLength)
ProductCode == Bounded(VecInputs(MaxProductCodeLength), MaxProductCodeLength)
InstitutionCode == Bounded(VecInputs(MaxInstitutionCodeLength), MaxInstitutionCodeLength)

\* Arguments <<code, institution_code>> addressing a token or a product:
\* every well-formed pair, and one pair for each over-long part.
PairInputs(codes, max) ==
    (codes \X InstitutionCode)
    \cup {<<Bytes(max + 1), Bytes(0)>>, <<Bytes(0), Bytes(MaxInstitutionCodeLength + 1)>>}

\* Arguments of create_token,
\*   <<token_code, institution_code, token_name, category, price,
\*     token_trade_direction, stock_quantity>>.
TokArgs(code, inst, direction) == <<code, inst, Bytes(0), Bytes(0), 1, direction, 1>>
TokCreateInputs ==
    {TokArgs(k[1], k[2], d) : k \in PairInputs(TokenCode, MaxTokenCodeLength), d \in {0, 1}}
    \cup UNION {{[TokArgs(k[1], k[2], 0) EXCEPT ![3] = Bytes(MaxNameLength + 1)],
                 [TokArgs(k[1], k[2], 0) EXCEPT ![4] = Bytes(MaxCategoryLength + 1)],
                 [TokArgs(k[1], k[2], 0) EXCEPT ![5] = 0],
                 TokArgs(k[1], k[2], 2)} : k \in TokenCode \X InstitutionCode}

\* Arguments <<token_code, institution_code, quantity>> of trade_token.
TokTradeInputs ==
    {<<k[1], k[2], q>> : k \in PairInputs(TokenCode, MaxTokenCodeLength), q \in {1, U32_MAX}}

\* Arguments of create_product,
\*   <<product_code, institution_code, product_name, category, brand,
\*     authorized_member_groups, original_price, current_price, description,
\*     main_image, detail_images, stock_quantity, weight, profit_ratio>>.
ProdArgs(code, inst) ==
    <<code, inst, Bytes(0), Bytes(0), Bytes(0), <<>>, 1, 1, Bytes(0), Bytes(0), <<>>, 1, 1, 0>>
ProdCreateInputs ==
    {ProdArgs(k[1], k[2]) : k \in PairInputs(ProductCode, MaxProductCodeLength)}
    \cup UNION {{[ProdArgs(k[1], k[2]) EXCEPT ![3] = Bytes(MaxNameLength + 1)],
                 [ProdArgs(k[1], k[2]) EXCEPT ![4] = Bytes(MaxCategoryLength + 1)],
                 [ProdArgs(k[1], k[2]) EXCEPT ![5] = Bytes(MaxBrandLength + 1)],
                 [ProdArgs(k[1], k[2]) EXCEPT ![6] = <<Bytes(MaxAuthorizedMemberGroup + 1)>>],
                 [ProdArgs(k[1], k[2]) EXCEPT ![6] = [i \in 1..(MaxAuthorizedGroups + 1) |-> Bytes(0)]],
                 [ProdArgs(k[1], k[2]) EXCEPT ![8] = 2],
                 [ProdArgs(k[1], k[2]) EXCEPT ![9] = Bytes(MaxDescriptionLength + 1)],
                 [ProdArgs(k[1], k[2]) EXCEPT ![10] = Bytes(MaxImageUrlLength + 1)],
                 [ProdArgs(k[1], k[2]) EXCEPT ![11] = <<Bytes(MaxImageUrlLength + 1)>>],
                 [ProdArgs(k[1], k[2]) EXCEPT ![11] = [i \in 1..(MaxDetailImages + 1) |-> Bytes(0)]]}
                : k \in ProductCode \X InstitutionCode}

\* Arguments of create_institution,
\*   <<institution_id, institution_name, institution_full_name,
\*     license_image_url, responsible_person, business_scope, profit_contract>>.
InstArgs(id) == <<id, Bytes(0), Bytes(0), Bytes(0), Bytes(0), Bytes(0), None>>
InstCreateInputs ==
    {InstArgs(id) : id \in InstitutionIdInputs}
    \cup UNION {{[InstArgs(id) EXCEPT ![2] = Bytes(MaxNameLength + 1)],
                 [InstArgs(id) EXCEPT ![3] = Bytes(MaxNameLength + 1)],
                 [InstArgs(id) EXCEPT ![4] = Bytes(MaxNameLength + 1)],
                 [InstArgs(id) EXCEPT ![5] = Bytes(MaxResponsiblePersonLength + 1)],
                 [InstArgs(id) EXCEPT ![6] = Bytes(MaxBusinessScopeLength + 1)],
                 [InstArgs(id) EXCEPT ![7] = Some(Bytes(MaxContractLength + 1))],
                 [InstArgs(id) EXCEPT ![7] = Some(Bytes(MaxContractLength))]}
                : id \in InstitutionId}

VARIABLES
    pallet,      \* the pallet whose dispatchables this behaviour exercises
    now,         \* frame_system::Pallet::<T>::block_number()
    c2c_order,   \* storage of pallet c2c-order
    ord_order,   \* storage of pallet order
    c2c_token,   \* storage of pallet c2c-token
    prod_product,      \* storage of pallet product
    inst_institution,  \* storage of pallet institution
    freight_template,  \* storage of pallet institution-freight-template
    payment_method,    \* storage of pallet institution-payment-method
    events,      \* frame_system events deposited by the last committed call
    last,        \* the last committed call: its name and primary key
    headroom     \* room of every index bucket beyond its scaled capacity

vars == <<pallet, now, c2c_order, ord_order, c2c_token, prod_product, inst_institution,
          freight_template, payment_method, events, last, headroom>>

(***************************************************************************)
(* Storage and result helpers.                                              *)
(***************************************************************************)
\* An OptionQuery map with no entry.
EmptyMap == [k \in {} |-> {}]
\* An insert that stores nothing.
insert_nothing(m, k, v) == m
\* StorageMap::insert
insert(m, k, v) == [x \in (DOMAIN m) \cup {k} |-> IF x = k THEN v ELSE m[x]]
\* StorageMap::remove
remove(m, k) == [x \in (DOMAIN m) \ {k} |-> m[x]]
\* A lookup that never finds a key.
contains_key_never(m, k) == FALSE

\* StorageMap::contains_key
contains_key(m, k) == k \in DOMAIN m

\* BoundedVec::<u8, max>::try_from(v).is_ok()
try_from_ok(v, max) == Len(v) <= max

\* if let Some(v) = opt { field = v }
set_if_some(opt, field) == IF opt = None THEN field ELSE opt[1]

\* Some(v) whose v does not fit a BoundedVec<u8, max>
too_long(opt, max) == opt # None /\ ~try_from_ok(opt[1], max)

\* BoundedVec::try_push(x).is_ok() for a bucket of capacity cap
try_push_ok(bucket, cap) == Len(bucket) < cap + headroom
\* slice::contains
contains(bucket, key) == \E i \in 1..Len(bucket) : bucket[i] = key

\* A retain that removes nothing.
retain_all(bucket, key) == bucket

\* Vec::retain(|code| code != key)
\* Vec::swap_remove of the first occurrence: the last element takes its place.
swap_remove(bucket, key) ==
    IF ~contains(bucket, key) THEN bucket
    ELSE LET i == CHOOSE i \in 1..Len(bucket) :
                      bucket[i] = key /\ \A j \in 1..(i - 1) : bucket[j] # key
         IN [j \in 1..(Len(bucket) - 1) |-> IF j = i THEN bucket[Len(bucket)] ELSE bucket[j]]

retain_ne(bucket, key) == SelectSeq(bucket, LAMBDA code : code # key)

\* A creator check that lets every caller through.
creator_is_anyone(creator, who) == TRUE

\* The condition of ensure!(record.creator == who, NotAuthorized)
creator_is(creator, who) == creator = who

\* u32 arithmetic, saturating at U32_MAX
\* u32 addition that wraps around.
wrapping_add(a, b) == (a + b) % (U32_MAX + 1)

saturating_add(a, b) == IF a + b > U32_MAX THEN U32_MAX ELSE a + b
\* u32 multiplication that wraps around instead of saturating.
wrapping_mul(a, b) == (a * b) % (U32_MAX + 1)

saturating_mul(a, b) == IF a * b > U32_MAX THEN U32_MAX ELSE a * b
saturating_sub(a, b) == IF a < b THEN 0 ELSE a - b

\* DispatchResult of a body together with the storage it leaves behind.
Ok(S) == [res |-> "Ok", st |-> S]
Err(e, S) == [res |-> e, st |-> S]

\* deposit_event: append to the events of the running call.
deposit_event(S, ev) == [S EXCEPT !.Events = Append(@, ev)]

\* The storage a dispatchable starts from: the pallet's storage and no event
\* deposited yet by this call.
Begin(store) == store @@ [Events |-> <<>>]

\* A dispatchable that ignores the storage layer: the writes made before an
\* Err stay.
no_storage_layer(pre, out) == out

\* frame_support::storage::with_storage_layer, which #[pallet::call] wraps
\* around every dispatchable: commit on Ok, roll back to `pre` on Err.
with_storage_layer(pre, out) == IF out.res = "Ok" THEN out ELSE Err(out.res, pre)

(***************************************************************************)
(* Pallet c2c-order.                                                        *)
(***************************************************************************)
C2cOrderStatus == {"Pending", "Paid", "Delivered", "Notarizing", "Cancelled", "Completed"}

\* match status { 0 => Pending, ... 5 => Completed, _ => InvalidStatus }
c2c_status_from_u8(status) ==
    CASE status = 0 -> "Pending"
      [] status = 1 -> "Paid"
      [] status = 2 -> "Delivered"
      [] status = 3 -> "Notarizing"
      [] status = 4 -> "Cancelled"
      [] status = 5 -> "Completed"
      [] OTHER -> "InvalidStatus"

\* match direction { 0 => UserSell, 1 => UserBuy, _ => InvalidDirection }
c2c_direction_from_u8(direction) ==
    CASE direction = 0 -> "UserSell"
      [] direction = 1 -> "UserBuy"
      [] OTHER -> "InvalidDirection"

\* A transition table that also lets a delivered order be cancelled.
c2c_validate_with_delivered_cancel(from, to) ==
    \/ from = "Pending" /\ to \in {"Paid", "Cancelled", "Notarizing"}
    \/ from = "Paid" /\ to \in {"Delivered", "Cancelled", "Notarizing"}
    \/ from = "Delivered" /\ to \in {"Completed", "Notarizing", "Cancelled"}
    \/ from = "Notarizing" /\ to \in {"Completed", "Cancelled"}

\* validate_status_transition: TRUE iff it returns Ok(())
c2c_validate_status_transition(from, to) ==
    \/ from = "Pending" /\ to \in {"Paid", "Cancelled", "Notarizing"}
    \/ from = "Paid" /\ to \in {"Delivered", "Cancelled", "Notarizing"}
    \/ from = "Delivered" /\ to \in {"Completed", "Notarizing"}
    \/ from = "Notarizing" /\ to \in {"Completed", "Cancelled"}

C2cOrderInit ==
    [Orders |-> EmptyMap,
     UserOrders |-> [m \in MemberCode |-> <<>>],
     InstitutionOrders |-> [i \in InstitutionId |-> <<>>],
     OrdersByStatus |-> [s \in C2cOrderStatus |-> <<>>]]

\* A create_order without the two ensure! on the amounts.
c2c_create_order_any_amount_body(S, who, order_code, member_code, institution_code, direction, transaction_amount, total_amount) ==
    IF ~try_from_ok(order_code, MaxOrderCodeLength) THEN Err("StringConversionError", S)
    ELSE IF contains_key(S.Orders, order_code) THEN Err("OrderCodeAlreadyExists", S)
    ELSE IF c2c_direction_from_u8(direction) = "InvalidDirection" THEN Err("InvalidDirection", S)
    ELSE IF ~try_from_ok(member_code, MaxMemberCodeLength) THEN Err("StringConversionError", S)
    ELSE IF ~try_from_ok(institution_code, MaxInstitutionIdLength) THEN Err("StringConversionError", S)
    ELSE
      LET order == [order_code |-> order_code,
                    member_code |-> member_code,
                    institution_code |-> institution_code,
                    status |-> "Pending",
                    direction |-> c2c_direction_from_u8(direction),
                    created_time |-> now,
                    updated_time |-> now,
                    transaction_amount |-> transaction_amount,
                    total_amount |-> total_amount,
                    creator |-> who]
          S1 == [S EXCEPT !.Orders = insert(@, order_code, order)]
      IN
      IF ~try_push_ok(S1.UserOrders[member_code], UserOrdersCap)
      THEN Err("UserOrderListFull", S1)
      ELSE
      LET S2 == [S1 EXCEPT !.UserOrders[member_code] = Append(@, order_code)] IN
      IF ~try_push_ok(S2.InstitutionOrders[institution_code], InstitutionOrdersCap)
      THEN Err("InstitutionOrderListFull", S2)
      ELSE
      LET S3 == [S2 EXCEPT !.InstitutionOrders[institution_code] = Append(@, order_code)] IN
      IF ~try_push_ok(S3.OrdersByStatus["Pending"], OrdersByStatusCap)
      THEN Err("StatusOrderListFull", S3)
      ELSE
      LET S4 == [S3 EXCEPT !.OrdersByStatus["Pending"] = Append(@, order_code)] IN
      Ok(deposit_event(S4, <<"OrderCreated", order_code, who>>))

c2c_create_order_body(S, who, order_code, member_code, institution_code, direction, transaction_amount, total_amount) ==
    IF ~try_from_ok(order_code, MaxOrderCodeLength) THEN Err("StringConversionError", S)
    ELSE IF contains_key(S.Orders, order_code) THEN Err("OrderCodeAlreadyExists", S)
    ELSE IF ~(transaction_amount > 0) THEN Err("InvalidAmount", S)
    ELSE IF ~(total_amount >= transaction_amount) THEN Err("InvalidAmount", S)
    ELSE IF c2c_direction_from_u8(direction) = "InvalidDirection" THEN Err("InvalidDirection", S)
    ELSE IF ~try_from_ok(member_code, MaxMemberCodeLength) THEN Err("StringConversionError", S)
    ELSE IF ~try_from_ok(institution_code, MaxInstitutionIdLength) THEN Err("StringConversionError", S)
    ELSE
      LET order == [order_code |-> order_code,
                    member_code |-> member_code,
                    institution_code |-> institution_code,
                    status |-> "Pending",
                    direction |-> c2c_direction_from_u8(direction),
                    created_time |-> now,
                    updated_time |-> now,
                    transaction_amount |-> transaction_amount,
                    total_amount |-> total_amount,
                    creator |-> who]
          S1 == [S EXCEPT !.Orders = insert(@, order_code, order)]
      IN
      IF ~try_push_ok(S1.UserOrders[member_code], UserOrdersCap)
      THEN Err("UserOrderListFull", S1)
      ELSE
      LET S2 == [S1 EXCEPT !.UserOrders[member_code] = Append(@, order_code)] IN
      IF ~try_push_ok(S2.InstitutionOrders[institution_code], InstitutionOrdersCap)
      THEN Err("InstitutionOrderListFull", S2)
      ELSE
      LET S3 == [S2 EXCEPT !.InstitutionOrders[institution_code] = Append(@, order_code)] IN
      IF ~try_push_ok(S3.OrdersByStatus["Pending"], OrdersByStatusCap)
      THEN Err("StatusOrderListFull", S3)
      ELSE
      LET S4 == [S3 EXCEPT !.OrdersByStatus["Pending"] = Append(@, order_code)] IN
      Ok(deposit_event(S4, <<"OrderCreated", order_code, who>>))

\* A move between by-status buckets that puts the key at the front of the new
\* bucket.
c2c_move_status_to_front(S, order_code, order, new_status, evs) ==
    LET old_status == order.status
        updated == [order EXCEPT !.status = new_status, !.updated_time = now]
        S1 == [S EXCEPT !.OrdersByStatus[old_status] = retain_ne(@, order_code)]
    IN
    IF ~try_push_ok(S1.OrdersByStatus[new_status], OrdersByStatusCap)
    THEN Err("StatusOrderListFull", S1)
    ELSE
    LET S2 == [S1 EXCEPT !.OrdersByStatus[new_status] = <<order_code>> \o @]
        S3 == [S2 EXCEPT !.Events = @ \o evs]
    IN Ok([S3 EXCEPT !.Orders[order_code] = updated])

\* The tail shared by update_order_status, cancel_order and complete_order
\* inside Orders::try_mutate: the closure has set order.status/updated_time
\* in memory, moves the key between the by-status buckets, deposits `evs`,
\* and only an Ok closure writes the order back.
\* A status move that also stamps created_time.
c2c_move_status_restamping(S, order_code, order, new_status, evs) ==
    LET old_status == order.status
        updated == [order EXCEPT !.status = new_status, !.updated_time = now,
                                 !.created_time = now]
        S1 == [S EXCEPT !.OrdersByStatus[old_status] = retain_ne(@, order_code)]
    IN
    IF ~try_push_ok(S1.OrdersByStatus[new_status], OrdersByStatusCap)
    THEN Err("StatusOrderListFull", S1)
    ELSE
    LET S2 == [S1 EXCEPT !.OrdersByStatus[new_status] = Append(@, order_code)]
        S3 == [S2 EXCEPT !.Events = @ \o evs]
    IN Ok([S3 EXCEPT !.Orders[order_code] = updated])

c2c_move_status(S, order_code, order, new_status, evs) ==
    LET old_status == order.status
        updated == [order EXCEPT !.status = new_status, !.updated_time = now]
        S1 == [S EXCEPT !.OrdersByStatus[old_status] = retain_ne(@, order_code)]
    IN
    IF ~try_push_ok(S1.OrdersByStatus[new_status], OrdersByStatusCap)
    THEN Err("StatusOrderListFull", S1)
    ELSE
    LET S2 == [S1 EXCEPT !.OrdersByStatus[new_status] = Append(@, order_code)]
        S3 == [S2 EXCEPT !.Events = @ \o evs]
    IN Ok([S3 EXCEPT !.Orders[order_code] = updated])

\* The events update_order_status deposits for a change into new_status.
c2c_status_events(order_code, status, new_status) ==
    <<<<"OrderStatusUpdated", order_code, status>>>>
    \o (CASE new_status = "Completed" -> <<<<"OrderCompleted", order_code>>>>
          [] new_status = "Notarizing" -> <<<<"OrderNotarizing", order_code>>>>
          [] OTHER -> <<>>)

\* An update_order_status that decodes the status code before it checks the
\* creator.
c2c_update_order_status_decode_first_body(S, who, order_code, status) ==
    IF ~try_from_ok(order_code, MaxOrderCodeLength) THEN Err("StringConversionError", S)
    ELSE IF ~contains_key(S.Orders, order_code) THEN Err("OrderNotFound", S)
    ELSE
      LET order == S.Orders[order_code]
          new_status == c2c_status_from_u8(status)
      IN
      IF new_status = "InvalidStatus" THEN Err("InvalidStatus", S)
      ELSE IF ~creator_is(order.creator, who) THEN Err("NotAuthorized", S)
      ELSE IF ~c2c_validate_status_transition(order.status, new_status)
      THEN Err("InvalidStatusTransition", S)
      ELSE c2c_move_status(S, order_code, order, new_status,
                           c2c_status_events(order_code, status, new_status))

c2c_update_order_status_body(S, who, order_code, status) ==
    IF ~try_from_ok(order_code, MaxOrderCodeLength) THEN Err("StringConversionError", S)
    ELSE IF ~contains_key(S.Orders, order_code) THEN Err("OrderNotFound", S)
    ELSE
      LET order == S.Orders[order_code]
          new_status == c2c_status_from_u8(status)
      IN
      IF ~creator_is(order.creator, who) THEN Err("NotAuthorized", S)
      ELSE IF new_status = "InvalidStatus" THEN Err("InvalidStatus", S)
      ELSE IF ~c2c_validate_status_transition(order.status, new_status)
      THEN Err("InvalidStatusTransition", S)
      ELSE c2c_move_status(S, order_code, order, new_status,
                           c2c_status_events(order_code, status, new_status))

\* A cancel_order that consults the transition table instead of its own
\* matches!(Pending | Paid).
c2c_cancel_by_table_body(S, who, order_code) ==
    IF ~try_from_ok(order_code, MaxOrderCodeLength) THEN Err("StringConversionError", S)
    ELSE IF ~contains_key(S.Orders, order_code) THEN Err("OrderNotFound", S)
    ELSE
      LET order == S.Orders[order_code] IN
      IF ~creator_is(order.creator, who) THEN Err("NotAuthorized", S)
      ELSE IF ~c2c_validate_status_transition(order.status, "Cancelled")
      THEN Err("InvalidStatusTransition", S)
      ELSE c2c_move_status(S, order_code, order, "Cancelled",
                           <<<<"OrderCancelled", order_code>>>>)

c2c_cancel_order_body(S, who, order_code) ==
    IF ~try_from_ok(order_code, MaxOrderCodeLength) THEN Err("StringConversionError", S)
    ELSE IF ~contains_key(S.Orders, order_code) THEN Err("OrderNotFound", S)
    ELSE
      LET order == S.Orders[order_code] IN
      IF ~creator_is(order.creator, who) THEN Err("NotAuthorized", S)
      ELSE IF order.status \notin {"Pending", "Paid"} THEN Err("InvalidStatusTransition", S)
      ELSE c2c_move_status(S, order_code, order, "Cancelled",
                           <<<<"OrderCancelled", order_code>>>>)

\* A complete_order that also completes a paid order.
c2c_complete_from_paid_body(S, who, order_code) ==
    IF ~try_from_ok(order_code, MaxOrderCodeLength) THEN Err("StringConversionError", S)
    ELSE IF ~contains_key(S.Orders, order_code) THEN Err("OrderNotFound", S)
    ELSE
      LET order == S.Orders[order_code] IN
      IF ~creator_is(order.creator, who) THEN Err("NotAuthorized", S)
      ELSE IF order.status \notin {"Paid", "Delivered", "Notarizing"}
      THEN Err("InvalidStatusTransition", S)
      ELSE c2c_move_status(S, order_code, order, "Completed",
                           <<<<"OrderCompleted", order_code>>>>)

c2c_complete_order_body(S, who, order_code) ==
    IF ~try_from_ok(order_code, MaxOrderCodeLength) THEN Err("StringConversionError", S)
    ELSE IF ~contains_key(S.Orders, order_code) THEN Err("OrderNotFound", S)
    ELSE
      LET order == S.Orders[order_code] IN
      IF ~creator_is(order.creator, who) THEN Err("NotAuthorized", S)
      ELSE IF order.status \notin {"Delivered", "Notarizing"} THEN Err("InvalidStatusTransition", S)
      ELSE c2c_move_status(S, order_code, order, "Completed",
                           <<<<"OrderCompleted", order_code>>>>)

\* A delete_order that looks the order up without converting the order code.
c2c_delete_order_unconverted_body(S, who, order_code) ==
    IF ~contains_key(S.Orders, order_code) THEN Err("OrderNotFound", S)
    ELSE
      LET order == S.Orders[order_code] IN
      IF ~creator_is(order.creator, who) THEN Err("NotAuthorized", S)
      ELSE
      LET S1 == [S EXCEPT !.UserOrders[order.member_code] = retain_ne(@, order_code)]
          S2 == [S1 EXCEPT !.InstitutionOrders[order.institution_code] = retain_ne(@, order_code)]
          S3 == [S2 EXCEPT !.OrdersByStatus[order.status] = retain_ne(@, order_code)]
          S4 == [S3 EXCEPT !.Orders = remove(@, order_code)]
      IN Ok(deposit_event(S4, <<"OrderDeleted", order_code>>))

c2c_delete_order_body(S, who, order_code) ==
    IF ~try_from_ok(order_code, MaxOrderCodeLength) THEN Err("StringConversionError", S)
    ELSE IF ~contains_key(S.Orders, order_code) THEN Err("OrderNotFound", S)
    ELSE
      LET order == S.Orders[order_code] IN
      IF ~creator_is(order.creator, who) THEN Err("NotAuthorized", S)
      ELSE
      LET S1 == [S EXCEPT !.UserOrders[order.member_code] = retain_ne(@, order_code)]
          S2 == [S1 EXCEPT !.InstitutionOrders[order.institution_code] = retain_ne(@, order_code)]
          S3 == [S2 EXCEPT !.OrdersByStatus[order.status] = retain_ne(@, order_code)]
          S4 == [S3 EXCEPT !.Orders = remove(@, order_code)]
      IN Ok(deposit_event(S4, <<"OrderDeleted", order_code>>))

\* The dispatchables as #[pallet::call] exposes them: the body run in a
\* storage layer, from the pallet's current storage.
c2c_create_order(who, order_code, member_code, institution_code, direction, transaction_amount, total_amount) ==
    with_storage_layer(Begin(c2c_order),
        c2c_create_order_body(Begin(c2c_order), who, order_code, member_code,
            institution_code, direction, transaction_amount, total_amount))

c2c_update_order_status(who, order_code, status) ==
    with_storage_layer(Begin(c2c_order),
        c2c_update_order_status_body(Begin(c2c_order), who, order_code, status))

c2c_cancel_order(who, order_code) ==
    with_storage_layer(Begin(c2c_order),
        c2c_cancel_order_body(Begin(c2c_order), who, order_code))

c2c_delete_order(who, order_code) ==
    with_storage_layer(Begin(c2c_order),
        c2c_delete_order_body(Begin(c2c_order), who, order_code))

c2c_complete_order(who, order_code) ==
    with_storage_layer(Begin(c2c_order),
        c2c_complete_order_body(Begin(c2c_order), who, order_code))

\* The trace a dispatched call leaves: its name and key if it committed,
\* nothing new if the storage layer rolled it back.
Trace(call, key, done) ==
    IF done.res = "Ok"
    THEN /\ events' = done.st.Events
         /\ last' = [call |-> call, key |-> key]
    ELSE /\ events' = IF done.st.Events = <<>> THEN events ELSE done.st.Events
         /\ UNCHANGED last

\* What a dispatched call of pallet p leaves in a pallet's storage: the
\* storage the layer kept for p itself, nothing new for any other pallet.
Commit(store, p, done) ==
    IF pallet = p THEN [f \in DOMAIN store |-> done.st[f]] ELSE store

\* One dispatched call of pallet p.
Dispatch(p, call, key, done) ==
    /\ pallet = p
    /\ c2c_order' = Commit(c2c_order, "c2c-order", done)
    /\ ord_order' = Commit(ord_order, "order", done)
    /\ c2c_token' = Commit(c2c_token, "c2c-token", done)
    /\ prod_product' = Commit(prod_product, "product", done)
    /\ inst_institution' = Commit(inst_institution, "institution", done)
    /\ freight_template' = Commit(freight_template, "institution-freight-template", done)
    /\ payment_method' = Commit(payment_method, "institution-payment-method", done)
    /\ Trace(call, key, done)
    /\ UNCHANGED <<pallet, now, headroom>>

C2cCreateOrder ==
    \E who \in AccountId, a \in C2cCreateInputs :
        Dispatch("c2c-order", "create_order", a[1], c2c_create_order(who, a[1], a[2], a[3], a[4], a[5], a[6]))

C2cUpdateOrderStatus ==
    \E who \in AccountId, a \in StatusCallInputs :
        Dispatch("c2c-order", "update_order_status", a[1], c2c_update_order_status(who, a[1], a[2]))

C2cCancelOrder ==
    \E who \in AccountId, order_code \in OrderCodeInputs :
        Dispatch("c2c-order", "cancel_order", order_code, c2c_cancel_order(who, order_code))

C2cDeleteOrder ==
    \E who \in AccountId, order_code \in OrderCodeInputs :
        Dispatch("c2c-order", "delete_order", order_code, c2c_delete_order(who, order_code))

C2cCompleteOrder ==
    \E who \in AccountId, order_code \in OrderCodeInputs :
        Dispatch("c2c-order", "complete_order", order_code, c2c_complete_order(who, order_code))

(***************************************************************************)
(* Pallet order.                                                            *)
(***************************************************************************)
OrdOrderStatus == {"Pending", "Paid", "Delivered", "Cancelled", "Completed", "Refunded"}

\* match status { 0 => Pending, ... 5 => Refunded, _ => InvalidStatus }
ord_status_from_u8(status) ==
    CASE status = 0 -> "Pending"
      [] status = 1 -> "Paid"
      [] status = 2 -> "Delivered"
      [] status = 3 -> "Cancelled"
      [] status = 4 -> "Completed"
      [] status = 5 -> "Refunded"
      [] OTHER -> "InvalidStatus"

\* A transition table that also lets a cancelled order be paid.
ord_validate_with_cancelled_paid(from, to) ==
    \/ from = "Pending" /\ to \in {"Paid", "Cancelled"}
    \/ from = "Paid" /\ to \in {"Delivered", "Refunded", "Cancelled"}
    \/ from = "Delivered" /\ to = "Completed"
    \/ from = "Completed" /\ to = "Refunded"
    \/ from = "Cancelled" /\ to = "Paid"

\* validate_status_transition: TRUE iff it returns Ok(())
ord_validate_status_transition(from, to) ==
    \/ from = "Pending" /\ to \in {"Paid", "Cancelled"}
    \/ from = "Paid" /\ to \in {"Delivered", "Refunded", "Cancelled"}
    \/ from = "Delivered" /\ to = "Completed"
    \/ from = "Completed" /\ to = "Refunded"

OrdOrderInit ==
    [Orders |-> EmptyMap,
     UserOrders |-> [m \in MemberCode |-> <<>>],
     InstitutionOrders |-> [i \in InstitutionId |-> <<>>]]

\* The for loop of create_order over the first n items: the running
\* <<total_amount, total_weight>>.
RECURSIVE ord_item_totals(_, _)
ord_item_totals(items, n) ==
    IF n = 0 THEN <<0, 0>>
    ELSE LET acc == ord_item_totals(items, n - 1)
             it == items[n]
         IN <<saturating_add(acc[1], saturating_mul(it.price_per_unit, it.quantity)),
              saturating_add(acc[2], saturating_mul(it.weight, it.quantity))>>

\* A contact field: None or a value within its bound.
ord_contact_ok(field, max) == field = None \/ try_from_ok(field[1], max)

ord_create_order_body(S, who, order_code, member_code, institution_code, freight, phone, email, address, items) ==
    IF ~try_from_ok(order_code, MaxOrderCodeLength) THEN Err("StringConversionError", S)
    ELSE IF contains_key(S.Orders, order_code) THEN Err("OrderCodeAlreadyExists", S)
    ELSE IF items = <<>> THEN Err("EmptyOrderItems", S)
    ELSE IF ~try_from_ok(member_code, MaxMemberCodeLength) THEN Err("StringConversionError", S)
    ELSE IF ~try_from_ok(institution_code, MaxInstitutionIdLength) THEN Err("StringConversionError", S)
    ELSE IF ~ord_contact_ok(phone, MaxPhoneLength) THEN Err("StringConversionError", S)
    ELSE IF ~ord_contact_ok(email, MaxEmailLength) THEN Err("StringConversionError", S)
    ELSE IF ~ord_contact_ok(address, MaxAddressLength) THEN Err("StringConversionError", S)
    ELSE IF \E i \in 1..Len(items) : ~try_from_ok(items[i].product_code, MaxItemProductCodeLength)
         THEN Err("StringConversionError", S)
    ELSE IF ~try_from_ok(items, MaxOrderItems) THEN Err("TooManyOrderItems", S)
    ELSE
      LET totals == ord_item_totals(items, Len(items))
          new_order == [order_code |-> order_code,
                        member_code |-> member_code,
                        institution_code |-> institution_code,
                        status |-> "Pending",
                        created_time |-> now,
                        updated_time |-> now,
                        total_amount |-> saturating_add(totals[1], freight),
                        total_weight |-> totals[2],
                        freight |-> freight,
                        contact_information |-> [phone |-> phone, email |-> email, address |-> address],
                        items |-> items,
                        express_company |-> <<>>,
                        express_number |-> <<>>,
                        creator |-> who]
          S1 == [S EXCEPT !.Orders = insert(@, order_code, new_order)]
      IN
      IF ~try_push_ok(S1.UserOrders[member_code], UserOrdersCap)
      THEN Err("UserOrderListFull", S1)
      ELSE
      LET S2 == [S1 EXCEPT !.UserOrders[member_code] = Append(@, order_code)] IN
      IF ~try_push_ok(S2.InstitutionOrders[institution_code], InstitutionOrdersCap)
      THEN Err("InstitutionOrderListFull", S2)
      ELSE
      LET S3 == [S2 EXCEPT !.InstitutionOrders[institution_code] = Append(@, order_code)] IN
      Ok(deposit_event(S3, <<"OrderCreated", order_code, who>>))

ord_update_order_status_body(S, who, order_code, status) ==
    IF ~try_from_ok(order_code, MaxOrderCodeLength) THEN Err("StringConversionError", S)
    ELSE IF ~contains_key(S.Orders, order_code) THEN Err("OrderNotFound", S)
    ELSE
      LET o == S.Orders[order_code]
          new_status == ord_status_from_u8(status)
      IN
      IF ~creator_is(o.creator, who) THEN Err("NotAuthorized", S)
      ELSE IF new_status = "InvalidStatus" THEN Err("InvalidStatus", S)
      ELSE IF ~ord_validate_status_transition(o.status, new_status)
      THEN Err("InvalidStatusTransition", S)
      ELSE
      LET S1 == deposit_event(S, <<"OrderStatusUpdated", order_code, status>>) IN
      Ok([S1 EXCEPT !.Orders[order_code] =
              [o EXCEPT !.status = new_status, !.updated_time = now]])

\* An update_express_info that stamps the order with block 0.
ord_update_express_info_epoch_body(S, who, order_code, express_company, express_number) ==
    IF ~try_from_ok(order_code, MaxOrderCodeLength) THEN Err("StringConversionError", S)
    ELSE IF ~try_from_ok(express_company, MaxExpressCompanyLength) THEN Err("StringConversionError", S)
    ELSE IF ~try_from_ok(express_number, MaxExpressNumberLength) THEN Err("StringConversionError", S)
    ELSE IF ~contains_key(S.Orders, order_code) THEN Err("OrderNotFound", S)
    ELSE
      LET o == S.Orders[order_code] IN
      IF ~creator_is(o.creator, who) THEN Err("NotAuthorized", S)
      ELSE
      LET S1 == deposit_event(S, <<"OrderExpressInfoUpdated", order_code>>) IN
      Ok([S1 EXCEPT !.Orders[order_code] =
              [o EXCEPT !.express_company = express_company,
                        !.express_number = express_number,
                        !.updated_time = 0]])

ord_update_express_info_body(S, who, order_code, express_company, express_number) ==
    IF ~try_from_ok(order_code, MaxOrderCodeLength) THEN Err("StringConversionError", S)
    ELSE IF ~try_from_ok(express_company, MaxExpressCompanyLength) THEN Err("StringConversionError", S)
    ELSE IF ~try_from_ok(express_number, MaxExpressNumberLength) THEN Err("StringConversionError", S)
    ELSE IF ~contains_key(S.Orders, order_code) THEN Err("OrderNotFound", S)
    ELSE
      LET o == S.Orders[order_code] IN
      IF ~creator_is(o.creator, who) THEN Err("NotAuthorized", S)
      ELSE
      LET S1 == deposit_event(S, <<"OrderExpressInfoUpdated", order_code>>) IN
      Ok([S1 EXCEPT !.Orders[order_code] =
              [o EXCEPT !.express_company = express_company,
                        !.express_number = express_number,
                        !.updated_time = now]])

ord_cancel_order_body(S, who, order_code) ==
    IF ~try_from_ok(order_code, MaxOrderCodeLength) THEN Err("StringConversionError", S)
    ELSE IF ~contains_key(S.Orders, order_code) THEN Err("OrderNotFound", S)
    ELSE
      LET o == S.Orders[order_code] IN
      IF ~creator_is(o.creator, who) THEN Err("NotAuthorized", S)
      ELSE IF o.status \notin {"Pending", "Paid"} THEN Err("InvalidStatusTransition", S)
      ELSE
      LET S1 == deposit_event(S, <<"OrderCancelled", order_code>>) IN
      Ok([S1 EXCEPT !.Orders[order_code] =
              [o EXCEPT !.status = "Cancelled", !.updated_time = now]])

ord_delete_order_body(S, who, order_code) ==
    IF ~try_from_ok(order_code, MaxOrderCodeLength) THEN Err("StringConversionError", S)
    ELSE IF ~contains_key(S.Orders, order_code) THEN Err("OrderNotFound", S)
    ELSE
      LET o == S.Orders[order_code] IN
      IF ~creator_is(o.creator, who) THEN Err("NotAuthorized", S)
      ELSE
      LET S1 == [S EXCEPT !.UserOrders[o.member_code] = retain_ne(@, order_code)]
          S2 == [S1 EXCEPT !.InstitutionOrders[o.institution_code] = retain_ne(@, order_code)]
          S3 == [S2 EXCEPT !.Orders = remove(@, order_code)]
      IN Ok(deposit_event(S3, <<"OrderDeleted", order_code>>))

ord_create_order(who, order_code, member_code, institution_code, freight, phone, email, address, items) ==
    with_storage_layer(Begin(ord_order),
        ord_create_order_body(Begin(ord_order), who, order_code, member_code,
            institution_code, freight, phone, email, address, items))

ord_update_order_status(who, order_code, status) ==
    with_storage_layer(Begin(ord_order),
        ord_update_order_status_body(Begin(ord_order), who, order_code, status))

ord_update_express_info(who, order_code, express_company, express_number) ==
    with_storage_layer(Begin(ord_order),
        ord_update_express_info_body(Begin(ord_order), who, order_code,
            express_company, express_number))

ord_cancel_order(who, order_code) ==
    with_storage_layer(Begin(ord_order), ord_cancel_order_body(Begin(ord_order), who, order_code))

ord_delete_order(who, order_code) ==
    with_storage_layer(Begin(ord_order), ord_delete_order_body(Begin(ord_order), who, order_code))

OrdCreateOrder ==
    \E who \in AccountId, a \in OrdCreateInputs :
        Dispatch("order", "create_order", a[1],
            ord_create_order(who, a[1], a[2], a[3], a[4], a[5], a[6], a[7], a[8]))

OrdUpdateOrderStatus ==
    \E who \in AccountId, a \in StatusCallInputs :
        Dispatch("order", "update_order_status", a[1], ord_update_order_status(who, a[1], a[2]))

OrdUpdateExpressInfo ==
    \E who \in AccountId, a \in OrdExpressInputs :
        Dispatch("order", "update_express_info", a[1],
            ord_update_express_info(who, a[1], a[2], a[3]))

OrdCancelOrder ==
    \E who \in AccountId, order_code \in OrderCodeInputs :
        Dispatch("order", "cancel_order", order_code, ord_cancel_order(who, order_code))

OrdDeleteOrder ==
    \E who \in AccountId, order_code \in OrderCodeInputs :
        Dispatch("order", "delete_order", order_code, ord_delete_order(who, order_code))

(***************************************************************************)
(* Pallet c2c-token.                                                        *)
(***************************************************************************)
TokInit ==
    [Tokens |-> EmptyMap,
     InstitutionTokens |-> [i \in InstitutionCode |-> <<>>],
     UserTokens |-> [a \in AccountId |-> <<>>]]

\* match token_trade_direction { 0 => Sell, 1 => Buy, _ => InvalidTradeDirection }
tok_direction_from_u8(direction) ==
    CASE direction = 0 -> "Sell"
      [] direction = 1 -> "Buy"
      [] OTHER -> "InvalidTradeDirection"

tok_create_token_body(S, who, token_code, institution_code, token_name, category, price, token_trade_direction, stock_quantity) ==
    IF ~try_from_ok(token_code, MaxTokenCodeLength) THEN Err("StringConversionError", S)
    ELSE IF ~try_from_ok(institution_code, MaxInstitutionCodeLength)
    THEN Err("StringConversionError", S)
    ELSE IF contains_key(S.Tokens, <<token_code, institution_code>>)
    THEN Err("TokenAlreadyExists", S)
    ELSE IF ~(price > 0) THEN Err("InvalidPrice", S)
    ELSE IF tok_direction_from_u8(token_trade_direction) = "InvalidTradeDirection"
    THEN Err("InvalidTradeDirection", S)
    ELSE IF ~try_from_ok(token_name, MaxNameLength) THEN Err("StringConversionError", S)
    ELSE IF ~try_from_ok(category, MaxCategoryLength) THEN Err("StringConversionError", S)
    ELSE
      LET token_info == [institution_code |-> institution_code,
                         token_name |-> token_name,
                         category |-> category,
                         price |-> price,
                         token_trade_direction |-> tok_direction_from_u8(token_trade_direction),
                         stock_quantity |-> stock_quantity,
                         sales_quantity |-> 0,
                         status |-> "Available",
                         creator |-> who]
          S1 == [S EXCEPT !.Tokens = insert(@, <<token_code, institution_code>>, token_info)]
      IN
      IF ~try_push_ok(S1.InstitutionTokens[institution_code], InstitutionTokensCap)
      THEN Err("InstitutionTokenListFull", S1)
      ELSE
      LET S2 == [S1 EXCEPT !.InstitutionTokens[institution_code] = Append(@, token_code)] IN
      IF ~try_push_ok(S2.UserTokens[who], UserTokensCap)
      THEN Err("UserTokenListFull", S2)
      ELSE
      LET S3 == [S2 EXCEPT !.UserTokens[who] = Append(@, <<token_code, institution_code>>)] IN
      Ok(deposit_event(S3, <<"TokenCreated", token_code, institution_code, who>>))

tok_delete_token_body(S, who, token_code, institution_code) ==
    IF ~try_from_ok(token_code, MaxTokenCodeLength) THEN Err("StringConversionError", S)
    ELSE IF ~try_from_ok(institution_code, MaxInstitutionCodeLength)
    THEN Err("StringConversionError", S)
    ELSE IF ~contains_key(S.Tokens, <<token_code, institution_code>>)
    THEN Err("TokenNotFound", S)
    ELSE IF ~creator_is(S.Tokens[<<token_code, institution_code>>].creator, who)
    THEN Err("NotAuthorized", S)
    ELSE
      LET S1 == [S EXCEPT !.InstitutionTokens[institution_code] = retain_ne(@, token_code)]
          S2 == [S1 EXCEPT !.UserTokens[who] = retain_ne(@, <<token_code, institution_code>>)]
          S3 == [S2 EXCEPT !.Tokens = remove(@, <<token_code, institution_code>>)]
      IN Ok(deposit_event(S3, <<"TokenDeleted", token_code, institution_code>>))

\* The match on token_trade_direction inside trade_token's try_mutate.
tok_traded(token, quantity) ==
    IF token.token_trade_direction = "Sell"
    THEN [token EXCEPT !.stock_quantity = saturating_sub(@, quantity),
                       !.sales_quantity = saturating_add(@, quantity)]
    ELSE [token EXCEPT !.stock_quantity = saturating_add(@, quantity)]

tok_trade_token_body(S, who, token_code, institution_code, quantity) ==
    IF ~try_from_ok(token_code, MaxTokenCodeLength) THEN Err("StringConversionError", S)
    ELSE IF ~try_from_ok(institution_code, MaxInstitutionCodeLength)
    THEN Err("StringConversionError", S)
    ELSE IF ~contains_key(S.Tokens, <<token_code, institution_code>>)
    THEN Err("TokenNotFound", S)
    ELSE
      LET token_pair == <<token_code, institution_code>>
          token == S.Tokens[token_pair]
      IN
      IF token.status # "Available" THEN Err("TokenNotFound", S)
      ELSE IF token.token_trade_direction = "Sell" /\ ~(token.stock_quantity >= quantity)
      THEN Err("InsufficientStock", S)
      ELSE
      LET S1 == deposit_event([S EXCEPT !.Tokens[token_pair] = tok_traded(token, quantity)],
                              <<"TokenTraded", token_code, institution_code, who, quantity>>)
      IN
      IF S1.Tokens[token_pair].token_trade_direction = "Buy"
         /\ ~contains(S1.UserTokens[who], token_pair)
      THEN IF ~try_push_ok(S1.UserTokens[who], UserTokensCap)
           THEN Err("UserTokenListFull", S1)
           ELSE Ok([S1 EXCEPT !.UserTokens[who] = Append(@, token_pair)])
      ELSE Ok(S1)

tok_create_token(who, token_code, institution_code, token_name, category, price, token_trade_direction, stock_quantity) ==
    with_storage_layer(Begin(c2c_token),
        tok_create_token_body(Begin(c2c_token), who, token_code, institution_code,
            token_name, category, price, token_trade_direction, stock_quantity))

tok_delete_token(who, token_code, institution_code) ==
    with_storage_layer(Begin(c2c_token),
        tok_delete_token_body(Begin(c2c_token), who, token_code, institution_code))

tok_trade_token(who, token_code, institution_code, quantity) ==
    with_storage_layer(Begin(c2c_token),
        tok_trade_token_body(Begin(c2c_token), who, token_code, institution_code, quantity))

TokCreateToken ==
    \E who \in AccountId, a \in TokCreateInputs :
        Dispatch("c2c-token", "create_token", <<a[1], a[2]>>,
            tok_create_token(who, a[1], a[2], a[3], a[4], a[5], a[6], a[7]))

TokTradeToken ==
    \E who \in AccountId, a \in TokTradeInputs :
        Dispatch("c2c-token", "trade_token", <<a[1], a[2]>>,
            tok_trade_token(who, a[1], a[2], a[3]))

TokDeleteToken ==
    \E who \in AccountId, k \in PairInputs(TokenCode, MaxTokenCodeLength) :
        Dispatch("c2c-token", "delete_token", k, tok_delete_token(who, k[1], k[2]))

\* The remaining dispatchables of c2c-token, each run in its storage layer.
\* a is the tuple of the optional fields of update_token_info:
\* <<token_name, category, price, token_trade_direction>>.
tok_update_token_info(who, token_code, institution_code, a) ==
    LET S == Begin(c2c_token)
        key == <<token_code, institution_code>>
    IN with_storage_layer(S,
        IF ~try_from_ok(token_code, MaxTokenCodeLength) THEN Err("StringConversionError", S)
        ELSE IF ~try_from_ok(institution_code, MaxInstitutionCodeLength)
        THEN Err("StringConversionError", S)
        ELSE IF ~contains_key(S.Tokens, key) THEN Err("TokenNotFound", S)
        ELSE IF ~creator_is(S.Tokens[key].creator, who) THEN Err("NotAuthorized", S)
        ELSE IF too_long(a[1], MaxNameLength) THEN Err("StringConversionError", S)
        ELSE IF too_long(a[2], MaxCategoryLength) THEN Err("StringConversionError", S)
        ELSE IF a[3] # None /\ ~(a[3][1] > 0) THEN Err("InvalidPrice", S)
        ELSE IF a[4] # None /\ tok_direction_from_u8(a[4][1]) = "InvalidTradeDirection"
        THEN Err("InvalidTradeDirection", S)
        ELSE Ok(deposit_event(
                 [S EXCEPT !.Tokens[key] =
                     [@ EXCEPT !.token_name = set_if_some(a[1], @),
                               !.category = set_if_some(a[2], @),
                               !.price = set_if_some(a[3], @),
                               !.token_trade_direction =
                                   IF a[4] = None THEN @ ELSE tok_direction_from_u8(a[4][1])]],
                 <<"TokenUpdated", token_code, institution_code>>)))

tok_update_token_status(who, token_code, institution_code, status) ==
    LET S == Begin(c2c_token)
        key == <<token_code, institution_code>>
    IN with_storage_layer(S,
        IF ~try_from_ok(token_code, MaxTokenCodeLength) THEN Err("StringConversionError", S)
        ELSE IF ~try_from_ok(institution_code, MaxInstitutionCodeLength)
        THEN Err("StringConversionError", S)
        ELSE IF ~contains_key(S.Tokens, key) THEN Err("TokenNotFound", S)
        ELSE IF ~creator_is(S.Tokens[key].creator, who) THEN Err("NotAuthorized", S)
        ELSE IF status \notin {0, 1} THEN Err("InvalidStatus", S)
        ELSE Ok(deposit_event(
                 [S EXCEPT !.Tokens[key].status = IF status = 0 THEN "Available" ELSE "Unavailable"],
                 <<"TokenStatusUpdated", token_code, institution_code, status>>)))

tok_update_token_price(who, token_code, institution_code, new_price) ==
    LET S == Begin(c2c_token)
        key == <<token_code, institution_code>>
    IN with_storage_layer(S,
        IF ~(new_price > 0) THEN Err("InvalidPrice", S)
        ELSE IF ~try_from_ok(token_code, MaxTokenCodeLength) THEN Err("StringConversionError", S)
        ELSE IF ~try_from_ok(institution_code, MaxInstitutionCodeLength)
        THEN Err("StringConversionError", S)
        ELSE IF ~contains_key(S.Tokens, key) THEN Err("TokenNotFound", S)
        ELSE IF ~creator_is(S.Tokens[key].creator, who) THEN Err("NotAuthorized", S)
        ELSE Ok(deposit_event([S EXCEPT !.Tokens[key].price = new_price],
                 <<"TokenPriceUpdated", token_code, institution_code, new_price>>)))

tok_update_stock(who, token_code, institution_code, new_stock) ==
    LET S == Begin(c2c_token)
        key == <<token_code, institution_code>>
    IN with_storage_layer(S,
        IF ~try_from_ok(token_code, MaxTokenCodeLength) THEN Err("StringConversionError", S)
        ELSE IF ~try_from_ok(institution_code, MaxInstitutionCodeLength)
        THEN Err("StringConversionError", S)
        ELSE IF ~contains_key(S.Tokens, key) THEN Err("TokenNotFound", S)
        ELSE IF ~creator_is(S.Tokens[key].creator, who) THEN Err("NotAuthorized", S)
        ELSE Ok(deposit_event([S EXCEPT !.Tokens[key].stock_quantity = new_stock],
                 <<"TokenStockUpdated", token_code, institution_code, new_stock>>)))

\* Optional fields of update_token_info the calls of the model supply: none,
\* one, and a supplied name followed by a rejected field.
NoTokInfo == <<None, None, None, None>>
TokInfoInputs ==
    {NoTokInfo,
     [NoTokInfo EXCEPT ![1] = Some(Bytes(1))],
     [NoTokInfo EXCEPT ![3] = Some(2)],
     [NoTokInfo EXCEPT ![4] = Some(0)],
     [NoTokInfo EXCEPT ![4] = Some(1)],
     [NoTokInfo EXCEPT ![1] = Some(Bytes(1)), ![3] = Some(0)],
     [NoTokInfo EXCEPT ![1] = Some(Bytes(1)), ![4] = Some(2)],
     [NoTokInfo EXCEPT ![2] = Some(Bytes(MaxCategoryLength + 1))]}

\* Keys <<token_code, institution_code>> the update calls address: the tokens
\* of one institution and one over-long token code.
TokUpdateInputs ==
    {<<c, Bytes(0)>> : c \in TokenCode} \cup {<<Bytes(MaxTokenCodeLength + 1), Bytes(0)>>}

TokUpdateTokenInfo ==
    \E who \in AccountId, k \in TokUpdateInputs, a \in TokInfoInputs :
        Dispatch("c2c-token", "update_token_info", k, tok_update_token_info(who, k[1], k[2], a))

TokUpdateTokenStatus ==
    \E who \in AccountId, k \in TokUpdateInputs, status \in 0..2 :
        Dispatch("c2c-token", "update_token_status", k,
            tok_update_token_status(who, k[1], k[2], status))

TokUpdateTokenPrice ==
    \E who \in AccountId, k \in TokUpdateInputs, new_price \in 0..1 :
        Dispatch("c2c-token", "update_token_price", k,
            tok_update_token_price(who, k[1], k[2], new_price))

TokUpdateStock ==
    \E who \in AccountId, k \in TokUpdateInputs, new_stock \in 0..1 :
        Dispatch("c2c-token", "update_stock", k, tok_update_stock(who, k[1], k[2], new_stock))

(***************************************************************************)
(* Pallet product.                                                          *)
(***************************************************************************)
ProdInit ==
    [Products |-> EmptyMap,
     InstitutionProducts |-> [i \in InstitutionCode |-> <<>>]]

prod_create_product_body(S, who, product_code, institution_code, product_name, category, brand, authorized_member_groups, original_price, current_price, description, main_image, detail_images, stock_quantity, weight, profit_ratio) ==
    IF ~try_from_ok(product_code, MaxProductCodeLength) THEN Err("StringConversionError", S)
    ELSE IF ~try_from_ok(institution_code, MaxInstitutionCodeLength)
    THEN Err("StringConversionError", S)
    ELSE IF contains_key(S.Products, <<product_code, institution_code>>)
    THEN Err("ProductAlreadyExists", S)
    ELSE IF ~(current_price <= original_price) THEN Err("InvalidPrice", S)
    ELSE IF ~try_from_ok(product_name, MaxNameLength) THEN Err("StringConversionError", S)
    ELSE IF ~try_from_ok(category, MaxCategoryLength) THEN Err("StringConversionError", S)
    ELSE IF ~try_from_ok(brand, MaxBrandLength) THEN Err("StringConversionError", S)
    ELSE IF \E i \in 1..Len(authorized_member_groups) :
                ~try_from_ok(authorized_member_groups[i], MaxAuthorizedMemberGroup)
    THEN Err("StringConversionError", S)
    ELSE IF ~try_from_ok(authorized_member_groups, MaxAuthorizedGroups)
    THEN Err("TooManyAuthorizedGroups", S)
    ELSE IF ~try_from_ok(description, MaxDescriptionLength) THEN Err("StringConversionError", S)
    ELSE IF ~try_from_ok(main_image, MaxImageUrlLength) THEN Err("StringConversionError", S)
    ELSE IF \E i \in 1..Len(detail_images) : ~try_from_ok(detail_images[i], MaxImageUrlLength)
    THEN Err("StringConversionError", S)
    ELSE IF ~try_from_ok(detail_images, MaxDetailImages) THEN Err("TooManyDetailImages", S)
    ELSE
      LET product_info == [product_name |-> product_name,
                           category |-> category,
                           brand |-> brand,
                           authorized_member_groups |-> authorized_member_groups,
                           original_price |-> original_price,
                           current_price |-> current_price,
                           description |-> description,
                           main_image |-> main_image,
                           detail_images |-> detail_images,
                           stock_quantity |-> stock_quantity,
                           sales_quantity |-> 0,
                           weight |-> weight,
                           status |-> "Available",
                           profit_ratio |-> profit_ratio,
                           created_date |-> now,
                           creator |-> who]
          S1 == [S EXCEPT !.Products = insert(@, <<product_code, institution_code>>, product_info)]
      IN
      IF ~try_push_ok(S1.InstitutionProducts[institution_code], InstitutionProductsCap)
      THEN Err("InstitutionProductListFull", S1)
      ELSE
      LET S2 == [S1 EXCEPT !.InstitutionProducts[institution_code] = Append(@, product_code)] IN
      Ok(deposit_event(S2, <<"ProductCreated", product_code, institution_code, who>>))

prod_delete_product_body(S, who, product_code, institution_code) ==
    IF ~try_from_ok(product_code, MaxProductCodeLength) THEN Err("StringConversionError", S)
    ELSE IF ~try_from_ok(institution_code, MaxInstitutionCodeLength)
    THEN Err("StringConversionError", S)
    ELSE IF ~contains_key(S.Products, <<product_code, institution_code>>)
    THEN Err("ProductNotFound", S)
    ELSE IF ~creator_is(S.Products[<<product_code, institution_code>>].creator, who)
    THEN Err("NotAuthorized", S)
    ELSE
      LET S1 == [S EXCEPT !.InstitutionProducts[institution_code] = retain_ne(@, product_code)]
          S2 == [S1 EXCEPT !.Products = remove(@, <<product_code, institution_code>>)]
      IN Ok(deposit_event(S2, <<"ProductDeleted", product_code, institution_code>>))

prod_create_product(who, a) ==
    with_storage_layer(Begin(prod_product),
        prod_create_product_body(Begin(prod_product), who, a[1], a[2], a[3], a[4], a[5],
            a[6], a[7], a[8], a[9], a[10], a[11], a[12], a[13], a[14]))

prod_delete_product(who, product_code, institution_code) ==
    with_storage_layer(Begin(prod_product),
        prod_delete_product_body(Begin(prod_product), who, product_code, institution_code))

ProdCreateProduct ==
    \E who \in AccountId, a \in ProdCreateInputs :
        Dispatch("product", "create_product", <<a[1], a[2]>>, prod_create_product(who, a))

ProdDeleteProduct ==
    \E who \in AccountId, k \in PairInputs(ProductCode, MaxProductCodeLength) :
        Dispatch("product", "delete_product", k, prod_delete_product(who, k[1], k[2]))

\* update_product_info with every optional field None: the fields from
\* product_name to profit_ratio.
NoProdInfo == <<None, None, None, None, None, None, None, None, None>>

\* The closure update_product_info passes to Products::try_mutate, from the
\* creator check on: its result and the in-memory product at its return.
prod_update_product_info_closure(product, product_name, category, brand, original_price, current_price, description, main_image, weight, profit_ratio) ==
    LET p1 == [product EXCEPT !.product_name = set_if_some(product_name, @)]
        p2 == [p1 EXCEPT !.category = set_if_some(category, @)]
        p3 == [p2 EXCEPT !.brand = set_if_some(brand, @)]
        p4 == [p3 EXCEPT !.original_price = set_if_some(original_price, @),
                         !.current_price = set_if_some(current_price, @)]
        p5 == [p4 EXCEPT !.description = set_if_some(description, @)]
        p6 == [p5 EXCEPT !.main_image = set_if_some(main_image, @)]
        p7 == [p6 EXCEPT !.weight = set_if_some(weight, @),
                         !.profit_ratio = set_if_some(profit_ratio, @)]
    IN
    IF too_long(product_name, MaxNameLength) THEN [res |-> "StringConversionError", val |-> product]
    ELSE IF too_long(category, MaxCategoryLength) THEN [res |-> "StringConversionError", val |-> p1]
    ELSE IF too_long(brand, MaxBrandLength) THEN [res |-> "StringConversionError", val |-> p2]
    ELSE IF ~(p4.current_price <= p4.original_price) THEN [res |-> "InvalidPrice", val |-> p4]
    ELSE IF too_long(description, MaxDescriptionLength)
    THEN [res |-> "StringConversionError", val |-> p4]
    ELSE IF too_long(main_image, MaxImageUrlLength) THEN [res |-> "StringConversionError", val |-> p5]
    ELSE [res |-> "Ok", val |-> p7]

\* StorageMap::try_mutate around a closure that found its record: `written` is
\* the storage with the closure's value and events, kept only if it returned Ok.
try_mutate(S, closure, written) == IF closure.res = "Ok" THEN Ok(written) ELSE Err(closure.res, S)

prod_update_product_info_body(S, who, product_code, institution_code, product_name, category, brand, original_price, current_price, description, main_image, weight, profit_ratio) ==
    IF ~try_from_ok(product_code, MaxProductCodeLength) THEN Err("StringConversionError", S)
    ELSE IF ~try_from_ok(institution_code, MaxInstitutionCodeLength)
    THEN Err("StringConversionError", S)
    ELSE IF ~contains_key(S.Products, <<product_code, institution_code>>)
    THEN Err("ProductNotFound", S)
    ELSE IF ~creator_is(S.Products[<<product_code, institution_code>>].creator, who)
    THEN Err("NotAuthorized", S)
    ELSE
      LET key == <<product_code, institution_code>>
          c == prod_update_product_info_closure(S.Products[key], product_name, category, brand,
                   original_price, current_price, description, main_image, weight, profit_ratio)
      IN try_mutate(S, c, deposit_event([S EXCEPT !.Products[key] = c.val],
                              <<"ProductUpdated", product_code, institution_code>>))

prod_update_product_status_body(S, who, product_code, institution_code, status) ==
    IF ~try_from_ok(product_code, MaxProductCodeLength) THEN Err("StringConversionError", S)
    ELSE IF ~try_from_ok(institution_code, MaxInstitutionCodeLength)
    THEN Err("StringConversionError", S)
    ELSE IF ~contains_key(S.Products, <<product_code, institution_code>>)
    THEN Err("ProductNotFound", S)
    ELSE IF ~creator_is(S.Products[<<product_code, institution_code>>].creator, who)
    THEN Err("NotAuthorized", S)
    ELSE IF status \notin {0, 1} THEN Err("InvalidStatus", S)
    ELSE
      LET new_status == IF status = 0 THEN "Available" ELSE "Unavailable" IN
      Ok(deposit_event(
          [S EXCEPT !.Products[<<product_code, institution_code>>].status = new_status],
          <<"ProductStatusUpdated", product_code, institution_code, status>>))

prod_update_stock_body(S, who, product_code, institution_code, new_stock) ==
    IF ~try_from_ok(product_code, MaxProductCodeLength) THEN Err("StringConversionError", S)
    ELSE IF ~try_from_ok(institution_code, MaxInstitutionCodeLength)
    THEN Err("StringConversionError", S)
    ELSE IF ~contains_key(S.Products, <<product_code, institution_code>>)
    THEN Err("ProductNotFound", S)
    ELSE IF ~creator_is(S.Products[<<product_code, institution_code>>].creator, who)
    THEN Err("NotAuthorized", S)
    ELSE
      Ok(deposit_event(
          [S EXCEPT !.Products[<<product_code, institution_code>>].stock_quantity = new_stock],
          <<"ProductStockUpdated", product_code, institution_code, new_stock>>))

\* purchase_product checks no creator and deposits no event.
prod_purchase_product_body(S, who, product_code, institution_code, quantity) ==
    IF ~try_from_ok(product_code, MaxProductCodeLength) THEN Err("StringConversionError", S)
    ELSE IF ~try_from_ok(institution_code, MaxInstitutionCodeLength)
    THEN Err("StringConversionError", S)
    ELSE IF ~contains_key(S.Products, <<product_code, institution_code>>)
    THEN Err("ProductNotFound", S)
    ELSE
      LET key == <<product_code, institution_code>>
          product == S.Products[key]
      IN
      IF product.status # "Available" THEN Err("ProductNotFound", S)
      ELSE IF ~(product.stock_quantity >= quantity) THEN Err("InsufficientStock", S)
      ELSE Ok([S EXCEPT !.Products[key].stock_quantity = saturating_sub(@, quantity),
                        !.Products[key].sales_quantity = saturating_add(@, quantity)])

\* An update_product_info that writes the in-memory product back whatever the
\* closure returns, outside any storage layer.
prod_update_product_info_eager(who, product_code, institution_code, a) ==
    LET S == Begin(prod_product)
        key == <<product_code, institution_code>>
        checked == prod_update_product_info_body(S, who, product_code, institution_code,
                       NoProdInfo[1], NoProdInfo[2], NoProdInfo[3], NoProdInfo[4], NoProdInfo[5],
                       NoProdInfo[6], NoProdInfo[7], NoProdInfo[8], NoProdInfo[9])
        c == prod_update_product_info_closure(S.Products[key], a[1], a[2], a[3], a[4], a[5],
                 a[6], a[7], a[8], a[9])
    IN IF checked.res # "Ok" THEN checked
       ELSE [res |-> c.res, st |-> [checked.st EXCEPT !.Products[key] = c.val]]

\* The four as #[pallet::call] exposes them.  a is the tuple of the optional
\* fields of update_product_info, from product_name to profit_ratio.
prod_update_product_info(who, product_code, institution_code, a) ==
    with_storage_layer(Begin(prod_product),
        prod_update_product_info_body(Begin(prod_product), who, product_code, institution_code,
            a[1], a[2], a[3], a[4], a[5], a[6], a[7], a[8], a[9]))

prod_update_product_status(who, product_code, institution_code, status) ==
    with_storage_layer(Begin(prod_product),
        prod_update_product_status_body(Begin(prod_product), who, product_code,
            institution_code, status))

prod_update_stock(who, product_code, institution_code, new_stock) ==
    with_storage_layer(Begin(prod_product),
        prod_update_stock_body(Begin(prod_product), who, product_code, institution_code,
            new_stock))

prod_purchase_product(who, product_code, institution_code, quantity) ==
    with_storage_layer(Begin(prod_product),
        prod_purchase_product_body(Begin(prod_product), who, product_code, institution_code,
            quantity))

\* Optional fields of update_product_info the calls of the model supply:
\* none, one, the two prices, and a supplied name followed by a rejected field.
ProdInfoInputs ==
    {NoProdInfo,
     [NoProdInfo EXCEPT ![1] = Some(Bytes(1))],
     [NoProdInfo EXCEPT ![4] = Some(2)],
     [NoProdInfo EXCEPT ![4] = Some(1)],
     [NoProdInfo EXCEPT ![5] = Some(2)],
     [NoProdInfo EXCEPT ![5] = Some(1)],
     [NoProdInfo EXCEPT ![4] = Some(2), ![5] = Some(2)],
     [NoProdInfo EXCEPT ![8] = Some(2)],
     [NoProdInfo EXCEPT ![1] = Some(Bytes(1)), ![5] = Some(U32_MAX)],
     [NoProdInfo EXCEPT ![1] = Some(Bytes(1)), ![7] = Some(Bytes(MaxImageUrlLength + 1))]}

ProdUpdateProductInfo ==
    \E who \in AccountId, k \in PairInputs(ProductCode, MaxProductCodeLength), a \in ProdInfoInputs :
        Dispatch("product", "update_product_info", k, prod_update_product_info(who, k[1], k[2], a))

ProdUpdateProductStatus ==
    \E who \in AccountId, k \in PairInputs(ProductCode, MaxProductCodeLength), status \in 0..2 :
        Dispatch("product", "update_product_status", k,
            prod_update_product_status(who, k[1], k[2], status))

ProdUpdateStock ==
    \E who \in AccountId, k \in PairInputs(ProductCode, MaxProductCodeLength), new_stock \in {0, 1} :
        Dispatch("product", "update_stock", k, prod_update_stock(who, k[1], k[2], new_stock))

ProdPurchaseProduct ==
    \E who \in AccountId, k \in PairInputs(ProductCode, MaxProductCodeLength), quantity \in {1, 2} :
        Dispatch("product", "purchase_product", k, prod_purchase_product(who, k[1], k[2], quantity))

(***************************************************************************)
(* Pallet institution.                                                      *)
(***************************************************************************)
InstInit == [Institutions |-> EmptyMap]

inst_create_institution_body(S, who, institution_id, institution_name, institution_full_name, license_image_url, responsible_person, business_scope, profit_contract) ==
    IF ~try_from_ok(institution_id, MaxInstitutionIdLength) THEN Err("StringConversionError", S)
    ELSE IF contains_key(S.Institutions, institution_id)
    THEN Err("InstitutionIdAlreadyExists", S)
    ELSE IF ~try_from_ok(institution_name, MaxNameLength) THEN Err("StringConversionError", S)
    ELSE IF ~try_from_ok(institution_full_name, MaxNameLength) THEN Err("StringConversionError", S)
    ELSE IF ~try_from_ok(license_image_url, MaxNameLength) THEN Err("StringConversionError", S)
    ELSE IF ~try_from_ok(responsible_person, MaxResponsiblePersonLength)
    THEN Err("StringConversionError", S)
    ELSE IF ~try_from_ok(business_scope, MaxBusinessScopeLength)
    THEN Err("StringConversionError", S)
    ELSE IF profit_contract # None /\ ~try_from_ok(profit_contract[1], MaxContractLength)
    THEN Err("StringConversionError", S)
    ELSE
      LET institution == [institution_name |-> institution_name,
                          status |-> "NotCertified",
                          institution_full_name |-> institution_full_name,
                          license_image_url |-> license_image_url,
                          responsible_person |-> responsible_person,
                          business_scope |-> business_scope,
                          profit_contract |-> profit_contract,
                          created_date |-> now,
                          creator |-> who]
          S1 == [S EXCEPT !.Institutions = insert(@, institution_id, institution)]
      IN Ok(deposit_event(S1, <<"InstitutionCreated", institution_id, who>>))

inst_delete_institution_body(S, who, institution_id) ==
    IF ~try_from_ok(institution_id, MaxInstitutionIdLength) THEN Err("StringConversionError", S)
    ELSE IF ~contains_key(S.Institutions, institution_id) THEN Err("InstitutionNotFound", S)
    ELSE IF ~creator_is(S.Institutions[institution_id].creator, who) THEN Err("NotAuthorized", S)
    ELSE Ok(deposit_event([S EXCEPT !.Institutions = remove(@, institution_id)],
                          <<"InstitutionDeleted", institution_id>>))

inst_create_institution(who, a) ==
    with_storage_layer(Begin(inst_institution),
        inst_create_institution_body(Begin(inst_institution), who,
            a[1], a[2], a[3], a[4], a[5], a[6], a[7]))

inst_delete_institution(who, institution_id) ==
    with_storage_layer(Begin(inst_institution),
        inst_delete_institution_body(Begin(inst_institution), who, institution_id))

InstCreateInstitution ==
    \E who \in AccountId, a \in InstCreateInputs :
        Dispatch("institution", "create_institution", a[1], inst_create_institution(who, a))

InstDeleteInstitution ==
    \E who \in AccountId, institution_id \in InstitutionIdInputs :
        Dispatch("institution", "delete_institution", institution_id,
            inst_delete_institution(who, institution_id))

\* update_institution_status as it would be under a transition graph that
\* makes Deactivated final.
inst_update_institution_status_guarded(who, institution_id, status) ==
    LET S == Begin(inst_institution)
    IN with_storage_layer(S,
        IF ~try_from_ok(institution_id, MaxInstitutionIdLength)
        THEN Err("StringConversionError", S)
        ELSE IF ~contains_key(S.Institutions, institution_id) THEN Err("InstitutionNotFound", S)
        ELSE IF ~creator_is(S.Institutions[institution_id].creator, who)
        THEN Err("NotAuthorized", S)
        ELSE IF status \notin {0, 1, 2} THEN Err("InvalidStatus", S)
        ELSE IF S.Institutions[institution_id].status = "Deactivated"
        THEN Err("InvalidStatus", S)
        ELSE Ok(deposit_event(
                 [S EXCEPT !.Institutions[institution_id].status =
                     CASE status = 0 -> "Certified"
                       [] status = 1 -> "NotCertified"
                       [] status = 2 -> "Deactivated"],
                 <<"InstitutionStatusUpdated", institution_id, status>>)))

inst_update_institution_status(who, institution_id, status) ==
    LET S == Begin(inst_institution)
    IN with_storage_layer(S,
        IF ~try_from_ok(institution_id, MaxInstitutionIdLength)
        THEN Err("StringConversionError", S)
        ELSE IF ~contains_key(S.Institutions, institution_id) THEN Err("InstitutionNotFound", S)
        ELSE IF ~creator_is(S.Institutions[institution_id].creator, who)
        THEN Err("NotAuthorized", S)
        ELSE IF status \notin {0, 1, 2} THEN Err("InvalidStatus", S)
        ELSE Ok(deposit_event(
                 [S EXCEPT !.Institutions[institution_id].status =
                     CASE status = 0 -> "Certified"
                       [] status = 1 -> "NotCertified"
                       [] status = 2 -> "Deactivated"],
                 <<"InstitutionStatusUpdated", institution_id, status>>)))

\* a is the tuple of the optional fields of update_institution_info:
\* <<institution_name, institution_full_name, license_image_url,
\*   responsible_person, business_scope, profit_contract>>.
inst_update_institution_info(who, institution_id, a) ==
    LET S == Begin(inst_institution)
    IN with_storage_layer(S,
        IF ~try_from_ok(institution_id, MaxInstitutionIdLength)
        THEN Err("StringConversionError", S)
        ELSE IF ~contains_key(S.Institutions, institution_id) THEN Err("InstitutionNotFound", S)
        ELSE IF ~creator_is(S.Institutions[institution_id].creator, who)
        THEN Err("NotAuthorized", S)
        ELSE IF too_long(a[1], MaxNameLength) THEN Err("StringConversionError", S)
        ELSE IF too_long(a[2], MaxNameLength) THEN Err("StringConversionError", S)
        ELSE IF too_long(a[3], MaxNameLength) THEN Err("StringConversionError", S)
        ELSE IF too_long(a[4], MaxResponsiblePersonLength) THEN Err("StringConversionError", S)
        ELSE IF too_long(a[5], MaxBusinessScopeLength) THEN Err("StringConversionError", S)
        ELSE IF too_long(a[6], MaxContractLength) THEN Err("StringConversionError", S)
        ELSE Ok(deposit_event(
                 [S EXCEPT !.Institutions[institution_id] =
                     [@ EXCEPT !.institution_name = set_if_some(a[1], @),
                               !.institution_full_name = set_if_some(a[2], @),
                               !.license_image_url = set_if_some(a[3], @),
                               !.responsible_person = set_if_some(a[4], @),
                               !.business_scope = set_if_some(a[5], @),
                               !.profit_contract = IF a[6] = None THEN @ ELSE Some(a[6][1])]],
                 <<"InstitutionInfoUpdated", institution_id>>)))

NoInstInfo == <<None, None, None, None, None, None>>
InstInfoInputs ==
    {NoInstInfo,
     [NoInstInfo EXCEPT ![1] = Some(Bytes(1))],
     [NoInstInfo EXCEPT ![4] = Some(Bytes(1))],
     [NoInstInfo EXCEPT ![6] = Some(Bytes(1))],
     [NoInstInfo EXCEPT ![1] = Some(Bytes(1)), ![5] = Some(Bytes(MaxBusinessScopeLength + 1))],
     [NoInstInfo EXCEPT ![2] = Some(Bytes(MaxNameLength + 1))]}

InstUpdateInstitutionStatus ==
    \E who \in AccountId, institution_id \in InstitutionIdInputs, status \in 0..3 :
        Dispatch("institution", "update_institution_status", institution_id,
            inst_update_institution_status(who, institution_id, status))

InstUpdateInstitutionInfo ==
    \E who \in AccountId, institution_id \in InstitutionIdInputs, a \in InstInfoInputs :
        Dispatch("institution", "update_institution_info", institution_id,
            inst_update_institution_info(who, institution_id, a))

(***************************************************************************)
(* Pallet institution-freight-template.                                     *)
(***************************************************************************)
FreightInit == [FreightTemplates |-> EmptyMap]

AreaInputs == VecInputs(MaxCustomAreaLength)

freight_create_freight_template(who, area, first_weight, first_weight_fee, additional_weight_fee) ==
    LET S == Begin(freight_template)
    IN with_storage_layer(S,
        IF ~try_from_ok(area, MaxCustomAreaLength) THEN Err("StringConversionError", S)
        ELSE IF contains_key(S.FreightTemplates, area) THEN Err("AreaAlreadyExists", S)
        ELSE
          LET template == [area |-> area,
                           first_weight |-> first_weight,
                           first_weight_fee |-> first_weight_fee,
                           additional_weight_fee |-> additional_weight_fee,
                           creator |-> who]
          IN Ok(deposit_event([S EXCEPT !.FreightTemplates = insert(@, area, template)],
                              <<"FreightTemplateCreated", area, who>>)))

\* An update that resets the fees nobody supplied.
freight_update_resetting_fees(who, area, first_weight, first_weight_fee, additional_weight_fee) ==
    LET S == Begin(freight_template)
    IN with_storage_layer(S,
        IF ~try_from_ok(area, MaxCustomAreaLength) THEN Err("StringConversionError", S)
        ELSE IF ~contains_key(S.FreightTemplates, area) THEN Err("FreightTemplateNotFound", S)
        ELSE IF ~creator_is(S.FreightTemplates[area].creator, who) THEN Err("NotAuthorized", S)
        ELSE Ok(deposit_event(
                 [S EXCEPT !.FreightTemplates[area] =
                     [@ EXCEPT !.first_weight = set_if_some(first_weight, @),
                               !.first_weight_fee = set_if_some(first_weight_fee, 0),
                               !.additional_weight_fee = set_if_some(additional_weight_fee, 0)]],
                 <<"FreightTemplateUpdated", area>>)))

freight_update_freight_template(who, area, first_weight, first_weight_fee, additional_weight_fee) ==
    LET S == Begin(freight_template)
    IN with_storage_layer(S,
        IF ~try_from_ok(area, MaxCustomAreaLength) THEN Err("StringConversionError", S)
        ELSE IF ~contains_key(S.FreightTemplates, area) THEN Err("FreightTemplateNotFound", S)
        ELSE IF ~creator_is(S.FreightTemplates[area].creator, who) THEN Err("NotAuthorized", S)
        ELSE Ok(deposit_event(
                 [S EXCEPT !.FreightTemplates[area] =
                     [@ EXCEPT !.first_weight = set_if_some(first_weight, @),
                               !.first_weight_fee = set_if_some(first_weight_fee, @),
                               !.additional_weight_fee = set_if_some(additional_weight_fee, @)]],
                 <<"FreightTemplateUpdated", area>>)))

freight_delete_freight_template(who, area) ==
    LET S == Begin(freight_template)
    IN with_storage_layer(S,
        IF ~try_from_ok(area, MaxCustomAreaLength) THEN Err("StringConversionError", S)
        ELSE IF ~contains_key(S.FreightTemplates, area) THEN Err("FreightTemplateNotFound", S)
        ELSE IF ~creator_is(S.FreightTemplates[area].creator, who) THEN Err("NotAuthorized", S)
        ELSE Ok(deposit_event([S EXCEPT !.FreightTemplates = remove(@, area)],
                              <<"FreightTemplateDeleted", area>>)))

\* Option<u64> arguments of update_freight_template.
OptU64Inputs == {None, Some(1), Some(2)}

FreightCreateFreightTemplate ==
    \E who \in AccountId, area \in AreaInputs, first_weight \in {0, 1} :
        Dispatch("institution-freight-template", "create_freight_template", area,
            freight_create_freight_template(who, area, first_weight, 0, 0))

FreightUpdateFreightTemplate ==
    \E who \in AccountId, area \in AreaInputs, w \in OptU64Inputs, f \in OptU64Inputs,
       g \in {None, Some(1)} :
        Dispatch("institution-freight-template", "update_freight_template", area,
            freight_update_freight_template(who, area, w, f, g))

FreightDeleteFreightTemplate ==
    \E who \in AccountId, area \in AreaInputs :
        Dispatch("institution-freight-template", "delete_freight_template", area,
            freight_delete_freight_template(who, area))

(***************************************************************************)
(* Pallet institution-payment-method.                                       *)
(***************************************************************************)
PayInit == [PaymentMethods |-> EmptyMap]

\* Option<Vec<u8>> arguments: absent, fitting, one byte too long.
OptVecInputs(max) == {None, Some(Bytes(max)), Some(Bytes(max + 1))}

pay_set_payment_method(who, institution_id, wechat, alipay, token, other) ==
    LET S == Begin(payment_method)
    IN with_storage_layer(S,
        IF ~try_from_ok(institution_id, MaxInstitutionIdLength)
        THEN Err("StringConversionError", S)
        ELSE IF ~(wechat # None \/ alipay # None \/ token # None \/ other # None)
        THEN Err("AtLeastOnePaymentMethodRequired", S)
        ELSE IF too_long(wechat, MaxPaymentLength) THEN Err("StringConversionError", S)
        ELSE IF too_long(alipay, MaxPaymentLength) THEN Err("StringConversionError", S)
        ELSE IF too_long(token, MaxPaymentLength) THEN Err("StringConversionError", S)
        ELSE IF too_long(other, MaxPaymentLength) THEN Err("StringConversionError", S)
        ELSE
          LET method == [wechat |-> wechat, alipay |-> alipay, token |-> token, other |-> other]
              is_update == contains_key(S.PaymentMethods, institution_id)
              S1 == [S EXCEPT !.PaymentMethods = insert(@, institution_id, method)]
          IN Ok(deposit_event(S1,
                 IF is_update THEN <<"PaymentMethodUpdated", institution_id>>
                 ELSE <<"PaymentMethodCreated", institution_id, who>>)))

pay_remove_payment_method(who, institution_id) ==
    LET S == Begin(payment_method)
    IN with_storage_layer(S,
        IF ~try_from_ok(institution_id, MaxInstitutionIdLength)
        THEN Err("StringConversionError", S)
        ELSE IF ~contains_key(S.PaymentMethods, institution_id)
        THEN Err("PaymentMethodNotFound", S)
        ELSE Ok(deposit_event([S EXCEPT !.PaymentMethods = remove(@, institution_id)],
                              <<"PaymentMethodDeleted", institution_id>>)))

pay_update_payment_field(who, institution_id, field_type, value) ==
    LET S == Begin(payment_method)
    IN with_storage_layer(S,
        IF ~try_from_ok(institution_id, MaxInstitutionIdLength)
        THEN Err("StringConversionError", S)
        ELSE IF too_long(value, MaxPaymentLength) THEN Err("StringConversionError", S)
        ELSE IF ~contains_key(S.PaymentMethods, institution_id)
        THEN Err("PaymentMethodNotFound", S)
        ELSE IF field_type \notin 0..3 THEN Err("StringConversionError", S)
        ELSE Ok(deposit_event(
                 [S EXCEPT !.PaymentMethods[institution_id] =
                     CASE field_type = 0 -> [@ EXCEPT !.wechat = value]
                       [] field_type = 1 -> [@ EXCEPT !.alipay = value]
                       [] field_type = 2 -> [@ EXCEPT !.token = value]
                       [] field_type = 3 -> [@ EXCEPT !.other = value]],
                 <<"PaymentMethodUpdated", institution_id>>)))

PaySetPaymentMethod ==
    \E who \in AccountId, institution_id \in InstitutionIdInputs,
       wechat \in OptVecInputs(MaxPaymentLength), alipay \in {None, Some(Bytes(0))} :
        Dispatch("institution-payment-method", "set_payment_method", institution_id,
            pay_set_payment_method(who, institution_id, wechat, alipay, None, None))

PayRemovePaymentMethod ==
    \E who \in AccountId, institution_id \in InstitutionIdInputs :
        Dispatch("institution-payment-method", "remove_payment_method", institution_id,
            pay_remove_payment_method(who, institution_id))

PayUpdatePaymentField ==
    \E who \in AccountId, institution_id \in InstitutionIdInputs, field_type \in 0..4,
       value \in OptVecInputs(MaxPaymentLength) :
        Dispatch("institution-payment-method", "update_payment_field", institution_id,
            pay_update_payment_field(who, institution_id, field_type, value))

(***************************************************************************)
(* The host: block production.                                              *)
(***************************************************************************)
NoCall == [call |-> "none", key |-> <<>>]

\* The host moves to the next block; no call is being dispatched.
AdvanceBlock ==
    /\ now < MaxBlock
    /\ now' = now + 1
    /\ events' = <<>>
    /\ last' = NoCall
    /\ UNCHANGED <<pallet, c2c_order, ord_order, c2c_token, prod_product, inst_institution,
                   freight_template, payment_method, headroom>>

Pallets == {"c2c-order", "order", "c2c-token", "product", "institution"}

\* The pallets share no storage and never call each other, so a behaviour
\* exercises the dispatchables of one pallet, chosen at the start.
Genesis ==
    /\ now = 0
    /\ c2c_order = C2cOrderInit
    /\ ord_order = OrdOrderInit
    /\ c2c_token = TokInit
    /\ prod_product = ProdInit
    /\ inst_institution = InstInit
    /\ freight_template = FreightInit
    /\ payment_method = PayInit
    /\ events = <<>>
    /\ last = NoCall
Init ==
    /\ pallet \in Pallets
    /\ headroom = 0
    /\ Genesis

\* The dispatchables of every pallet, within one block.
Next ==
    \/ C2cCreateOrder
    \/ C2cUpdateOrderStatus
    \/ C2cCancelOrder
    \/ C2cDeleteOrder
    \/ C2cCompleteOrder
    \/ OrdCreateOrder
    \/ OrdUpdateOrderStatus
    \/ OrdUpdateExpressInfo
    \/ OrdCancelOrder
    \/ OrdDeleteOrder
    \/ TokCreateToken
    \/ TokTradeToken
    \/ TokDeleteToken
    \/ ProdCreateProduct
    \/ ProdDeleteProduct
    \/ InstCreateInstitution
    \/ InstDeleteInstitution

Spec == Init /\ [][Next]_vars

\* Pallet c2c-order alone, over several blocks.
C2cClockInit == Init /\ pallet = "c2c-order"
C2cClockNext ==
    \/ AdvanceBlock
    \/ C2cCreateOrder
    \/ C2cUpdateOrderStatus
    \/ C2cCancelOrder
    \/ C2cDeleteOrder
    \/ C2cCompleteOrder
SpecC2cClock == C2cClockInit /\ [][C2cClockNext]_vars

\* The same with buckets that can hold every key of the model.
WideC2cClockInit ==
    /\ pallet = "c2c-order"
    /\ headroom = MaxHeadroom
    /\ Genesis
SpecWideC2cClock == WideC2cClockInit /\ [][C2cClockNext]_vars

\* Pallets c2c-order and order, over several blocks.
OrdersClockInit == Init /\ pallet \in {"c2c-order", "order"}
OrdersClockNext ==
    \/ AdvanceBlock
    \/ C2cCreateOrder
    \/ C2cUpdateOrderStatus
    \/ C2cCancelOrder
    \/ C2cDeleteOrder
    \/ C2cCompleteOrder
    \/ OrdCreateOrder
    \/ OrdUpdateOrderStatus
    \/ OrdUpdateExpressInfo
    \/ OrdCancelOrder
    \/ OrdDeleteOrder
SpecOrdersClock == OrdersClockInit /\ [][OrdersClockNext]_vars

\* Pallets c2c-order and order with buckets that can hold every key of the
\* model.
WideInit ==
    /\ pallet \in {"c2c-order", "order"}
    /\ headroom = MaxHeadroom
    /\ Genesis
WideNext ==
    \/ C2cCreateOrder
    \/ C2cUpdateOrderStatus
    \/ C2cCancelOrder
    \/ C2cDeleteOrder
    \/ C2cCompleteOrder
    \/ OrdCreateOrder
    \/ OrdUpdateOrderStatus
    \/ OrdUpdateExpressInfo
    \/ OrdCancelOrder
    \/ OrdDeleteOrder
SpecWide == WideInit /\ [][WideNext]_vars

\* Pallet c2c-token with buckets that can hold every pair of the model.  The
\* calls address the tokens of one institution, with well-formed arguments and
\* quantity 1.
WideTokInputs == {<<c, Bytes(0)>> : c \in TokenCode}
TokWideCreateToken ==
    \E who \in AccountId, k \in WideTokInputs, d \in {0, 1} :
        LET a == TokArgs(k[1], k[2], d) IN
        Dispatch("c2c-token", "create_token", k,
            tok_create_token(who, a[1], a[2], a[3], a[4], a[5], a[6], a[7]))
TokWideTradeToken ==
    \E who \in AccountId, k \in WideTokInputs :
        Dispatch("c2c-token", "trade_token", k, tok_trade_token(who, k[1], k[2], 1))
TokWideDeleteToken ==
    \E who \in AccountId, k \in WideTokInputs :
        Dispatch("c2c-token", "delete_token", k, tok_delete_token(who, k[1], k[2]))
WideTokInit ==
    /\ pallet = "c2c-token"
    /\ headroom = MaxHeadroom
    /\ Genesis
WideTokNext ==
    \/ TokWideCreateToken
    \/ TokWideTradeToken
    \/ TokWideDeleteToken
SpecWideTokens == WideTokInit /\ [][WideTokNext]_vars

\* The record pallets with every dispatchable.
RecordsInit ==
    /\ pallet \in {"product", "c2c-token", "institution", "institution-freight-template",
                   "institution-payment-method"}
    /\ headroom = 0
    /\ Genesis
\* The behaviours explored keep at most MaxRecords records in a store.
RecordsBound ==
    /\ Cardinality(DOMAIN prod_product.Products) <= MaxRecords
    /\ Cardinality(DOMAIN c2c_token.Tokens) <= MaxRecords
    /\ Cardinality(DOMAIN inst_institution.Institutions) <= MaxRecords
    /\ Cardinality(DOMAIN freight_template.FreightTemplates) <= MaxRecords
    /\ Cardinality(DOMAIN payment_method.PaymentMethods) <= MaxRecords
RecordsNext ==
    \/ ProdCreateProduct /\ RecordsBound'
    \/ ProdUpdateProductInfo
    \/ ProdUpdateProductStatus
    \/ ProdUpdateStock
    \/ ProdDeleteProduct
    \/ ProdPurchaseProduct
    \/ TokWideCreateToken /\ RecordsBound'
    \/ TokUpdateTokenInfo
    \/ TokUpdateTokenStatus
    \/ TokUpdateTokenPrice
    \/ TokUpdateStock
    \/ TokWideTradeToken
    \/ TokWideDeleteToken
    \/ InstCreateInstitution /\ RecordsBound'
    \/ InstUpdateInstitutionStatus
    \/ InstUpdateInstitutionInfo
    \/ InstDeleteInstitution
    \/ FreightCreateFreightTemplate /\ RecordsBound'
    \/ FreightUpdateFreightTemplate
    \/ FreightDeleteFreightTemplate
    \/ PaySetPaymentMethod /\ RecordsBound'
    \/ PayRemovePaymentMethod
    \/ PayUpdatePaymentField
SpecRecords == RecordsInit /\ [][RecordsNext]_vars

(***************************************************************************)
(* Properties.  A property of a call that fails is stated over the call's   *)
(* outcome in the current state (the storage it would leave against the     *)
(* storage it started from), for every caller and every argument.           *)
(***************************************************************************)
\* Number of occurrences of key in a bucket.
Count(bucket, key) == Cardinality({i \in 1..Len(bucket) : bucket[i] = key})

C2cBuckets == c2c_order.OrdersByStatus

C2_BucketKeyHasThatStatus ==
    \A S \in C2cOrderStatus : \A i \in 1..Len(C2cBuckets[S]) :
        LET k == C2cBuckets[S][i] IN
        /\ k \in DOMAIN c2c_order.Orders
        /\ c2c_order.Orders[k].status = S
        /\ \A T \in C2cOrderStatus \ {S} : ~contains(C2cBuckets[T], k)

\* An order has just been deleted while another order sits in a bucket other
\* than Pending.
C2_Witness ==
    /\ pallet = "c2c-order"
    /\ last.call = "delete_order"
    /\ \E S \in C2cOrderStatus \ {"Pending"} : C2cBuckets[S] # <<>>

ListFull ==
    {"UserOrderListFull", "InstitutionOrderListFull", "StatusOrderListFull",
     "InstitutionProductListFull", "InstitutionTokenListFull", "UserTokenListFull"}

C2cStatusCalls(who, k) ==
    {c2c_update_order_status(who, k, status) : status \in StatusInputs}
    \cup {c2c_cancel_order(who, k), c2c_complete_order(who, k)}

C6_Status == <<"Pending", "Paid", "Delivered", "Notarizing", "Cancelled", "Completed">>

C6_Graph ==
    {<<"Pending", "Paid">>, <<"Pending", "Cancelled">>, <<"Pending", "Notarizing">>,
     <<"Paid", "Delivered">>, <<"Paid", "Cancelled">>, <<"Paid", "Notarizing">>,
     <<"Delivered", "Completed">>, <<"Delivered", "Notarizing">>,
     <<"Notarizing", "Completed">>, <<"Notarizing", "Cancelled">>}

\* C6: in c2c-order, update_order_status by the creator with a valid code
\* passes the transition check exactly for the pairs of C6_Graph (it then
\* succeeds and sets the status, unless the target bucket is full); for every
\* other pair it fails with InvalidStatusTransition and the status stays.
C6_C2cTransitionGraph ==
    \A k \in DOMAIN c2c_order.Orders : \A code \in 0..5 :
        LET from == c2c_order.Orders[k].status
            out == c2c_update_order_status(c2c_order.Orders[k].creator, k, code)
        IN IF <<from, C6_Status[code + 1]>> \in C6_Graph
           THEN /\ out.res \in {"Ok", "StatusOrderListFull"}
                /\ out.res = "Ok" => out.st.Orders[k].status = C6_Status[code + 1]
           ELSE /\ out.res = "InvalidStatusTransition"
                /\ out.st.Orders[k].status = from

\* update_order_status has brought an order to Delivered and another order
\* has reached Notarizing.
C6_Witness ==
    /\ last.call = "update_order_status"
    /\ \E k \in DOMAIN c2c_order.Orders : c2c_order.Orders[k].status = "Delivered"
    /\ \E k \in DOMAIN c2c_order.Orders : c2c_order.Orders[k].status = "Notarizing"

\* The status codes of the plain order pallet, 0 to 5.
C7_Status == <<"Pending", "Paid", "Delivered", "Cancelled", "Completed", "Refunded">>

C7_Graph ==
    {<<"Pending", "Paid">>, <<"Pending", "Cancelled">>,
     <<"Paid", "Delivered">>, <<"Paid", "Refunded">>, <<"Paid", "Cancelled">>,
     <<"Delivered", "Completed">>, <<"Completed", "Refunded">>}

\* C7: in the plain order pallet, update_order_status by the creator with a
\* valid code succeeds, setting the status, exactly for the pairs of
\* C7_Graph; every other pair fails with InvalidStatusTransition and leaves
\* the status unchanged.
C7_OrderTransitionGraph ==
    \A k \in DOMAIN ord_order.Orders : \A code \in 0..5 :
        LET from == ord_order.Orders[k].status
            out == ord_update_order_status(ord_order.Orders[k].creator, k, code)
        IN IF <<from, C7_Status[code + 1]>> \in C7_Graph
           THEN /\ out.res = "Ok"
                /\ out.st.Orders[k].status = C7_Status[code + 1]
           ELSE /\ out.res = "InvalidStatusTransition"
                /\ out.st.Orders[k].status = from

\* update_order_status has brought one plain order to Completed while
\* another one is Cancelled.
C7_Witness ==
    /\ pallet = "order"
    /\ last.call = "update_order_status"
    /\ \E k \in DOMAIN ord_order.Orders : ord_order.Orders[k].status = "Completed"
    /\ \E k \in DOMAIN ord_order.Orders : ord_order.Orders[k].status = "Cancelled"

\* The outcomes of every c2c-order command that who can address to order k.
C8_C2cCalls(who, k) ==
    C2cStatusCalls(who, k) \cup {c2c_delete_order(who, k)}

\* The outcomes of the plain-order commands that take only the order code,
\* or the order code and a status code.
C8_OrdCalls(who, k) ==
    {ord_update_order_status(who, k, status) : status \in StatusInputs}
    \cup {ord_cancel_order(who, k), ord_delete_order(who, k)}

\* C8 as stated: in order and c2c-order, update_order_status, cancel_order,
\* complete_order, update_express_info and delete_order by a caller who is
\* not the creator of the existing order fail with NotAuthorized and leave
\* the record and every index bucket unchanged.
C8_NonCreatorGetsNotAuthorized ==
    /\ \A k \in DOMAIN c2c_order.Orders : \A who \in AccountId \ {c2c_order.Orders[k].creator} :
           \A out \in C8_C2cCalls(who, k) :
               out.res = "NotAuthorized" /\ out.st = Begin(c2c_order)
    /\ \A k \in DOMAIN ord_order.Orders : \A who \in AccountId \ {ord_order.Orders[k].creator} :
           /\ \A out \in C8_OrdCalls(who, k) :
                  out.res = "NotAuthorized" /\ out.st = Begin(ord_order)
           /\ \A a \in OrdExpressInputs :
                  a[1] = k =>
                      LET out == ord_update_express_info(who, k, a[2], a[3]) IN
                      out.res = "NotAuthorized" /\ out.st = Begin(ord_order)

\* C8, amended: such a call never succeeds and leaves the record and every
\* index bucket unchanged; it fails with NotAuthorized, except that
\* update_express_info with an over-long express_company or express_number
\* fails with StringConversionError.
C8_NonCreatorNeverSucceeds ==
    /\ \A k \in DOMAIN c2c_order.Orders : \A who \in AccountId \ {c2c_order.Orders[k].creator} :
           \A out \in C8_C2cCalls(who, k) :
               out.res = "NotAuthorized" /\ out.st = Begin(c2c_order)
    /\ \A k \in DOMAIN ord_order.Orders : \A who \in AccountId \ {ord_order.Orders[k].creator} :
           /\ \A out \in C8_OrdCalls(who, k) :
                  out.res = "NotAuthorized" /\ out.st = Begin(ord_order)
           /\ \A a \in OrdExpressInputs :
                  a[1] = k =>
                      LET out == ord_update_express_info(who, k, a[2], a[3]) IN
                      /\ out.res = IF Len(a[2]) > MaxExpressCompanyLength
                                      \/ Len(a[3]) > MaxExpressNumberLength
                                   THEN "StringConversionError"
                                   ELSE "NotAuthorized"
                      /\ out.st = Begin(ord_order)

\* A plain order that already carries express information is addressed by a
\* non-creator: update_express_info with an over-long company name is turned
\* away before the creator check, delete_order by it.
C8_Witness ==
    \E k \in DOMAIN ord_order.Orders, who \in AccountId :
        /\ who # ord_order.Orders[k].creator
        /\ ord_order.Orders[k].express_company # <<>>
        /\ ord_update_express_info(who, k, Bytes(MaxExpressCompanyLength + 1), Bytes(0)).res
               = "StringConversionError"
        /\ ord_delete_order(who, k).res = "NotAuthorized"

\* C9: a create command whose primary key is already stored fails with the
\* pallet's AlreadyExists error for every caller and all other arguments,
\* and leaves the stored record and every index bucket unchanged.
C9_CreateExistingKeyFails ==
    \A who \in AccountId :
        /\ \A a \in C2cCreateInputs :
               a[1] \in DOMAIN c2c_order.Orders =>
                   LET out == c2c_create_order(who, a[1], a[2], a[3], a[4], a[5], a[6]) IN
                   out.res = "OrderCodeAlreadyExists" /\ out.st = Begin(c2c_order)
        /\ \A a \in OrdCreateInputs :
               a[1] \in DOMAIN ord_order.Orders =>
                   LET out == ord_create_order(who, a[1], a[2], a[3], a[4], a[5], a[6], a[7], a[8]) IN
                   out.res = "OrderCodeAlreadyExists" /\ out.st = Begin(ord_order)
        /\ \A a \in InstCreateInputs :
               a[1] \in DOMAIN inst_institution.Institutions =>
                   LET out == inst_create_institution(who, a) IN
                   out.res = "InstitutionIdAlreadyExists" /\ out.st = Begin(inst_institution)
        /\ \A a \in TokCreateInputs :
               <<a[1], a[2]>> \in DOMAIN c2c_token.Tokens =>
                   LET out == tok_create_token(who, a[1], a[2], a[3], a[4], a[5], a[6], a[7]) IN
                   out.res = "TokenAlreadyExists" /\ out.st = Begin(c2c_token)
        /\ \A a \in ProdCreateInputs :
               <<a[1], a[2]>> \in DOMAIN prod_product.Products =>
                   LET out == prod_create_product(who, a) IN
                   out.res = "ProductAlreadyExists" /\ out.st = Begin(prod_product)

\* A token that has been traded since its creation is addressed by a
\* create_token of another caller with an invalid price.
C9_Witness ==
    \E k \in DOMAIN c2c_token.Tokens, who \in AccountId, a \in TokCreateInputs :
        /\ <<a[1], a[2]>> = k
        /\ who # c2c_token.Tokens[k].creator
        /\ a[5] = 0
        /\ c2c_token.Tokens[k].sales_quantity > 0

\* key occurs in no bucket of an index family.
InNoBucket(index, key) == \A b \in DOMAIN index : ~contains(index[b], key)

\* C10: a successful delete_order (order, c2c-order) or delete_product leaves
\* the key absent from the primary store and from every bucket of every
\* index family, whatever the status of the deleted record.  (A product
\* (code, institution) is indexed as code in its institution's bucket.)
C10_DeletedKeyIsGone ==
    \A who \in AccountId :
        /\ \A k \in OrderCodeInputs :
               LET out == c2c_delete_order(who, k) IN
               out.res = "Ok" =>
                   /\ k \notin DOMAIN out.st.Orders
                   /\ InNoBucket(out.st.UserOrders, k)
                   /\ InNoBucket(out.st.InstitutionOrders, k)
                   /\ InNoBucket(out.st.OrdersByStatus, k)
        /\ \A k \in OrderCodeInputs :
               LET out == ord_delete_order(who, k) IN
               out.res = "Ok" =>
                   /\ k \notin DOMAIN out.st.Orders
                   /\ InNoBucket(out.st.UserOrders, k)
                   /\ InNoBucket(out.st.InstitutionOrders, k)
        /\ \A k \in PairInputs(ProductCode, MaxProductCodeLength) :
               LET out == prod_delete_product(who, k[1], k[2]) IN
               out.res = "Ok" =>
                   /\ k \notin DOMAIN out.st.Products
                   /\ ~contains(out.st.InstitutionProducts[k[2]], k[1])

\* The creator can delete a c2c-order order that has reached Notarizing.
C10_Witness ==
    \E k \in DOMAIN c2c_order.Orders :
        /\ c2c_order.Orders[k].status = "Notarizing"
        /\ c2c_delete_order(c2c_order.Orders[k].creator, k).res = "Ok"

\* C11 as stated: after a successful delete_token of (token_code,
\* institution_code) the pair is absent from Tokens, the token code is absent
\* from InstitutionTokens[institution_code], and the pair is absent from the
\* UserTokens bucket of every account, buyers included.
C11_DeletedTokenIsGone ==
    \A who \in AccountId, k \in PairInputs(TokenCode, MaxTokenCodeLength) :
        LET out == tok_delete_token(who, k[1], k[2]) IN
        out.res = "Ok" =>
            /\ k \notin DOMAIN out.st.Tokens
            /\ ~contains(out.st.InstitutionTokens[k[2]], k[1])
            /\ \A a \in AccountId : ~contains(out.st.UserTokens[a], k)

\* No key occurs twice in any bucket of an index family.
NoDuplicates(index) ==
    \A b \in DOMAIN index : \A i, j \in 1..Len(index[b]) : index[b][i] = index[b][j] => i = j

\* The index families of the two order pallets' storage S hold no duplicates.
C12_C2cNoDuplicates(S) ==
    NoDuplicates(S.UserOrders) /\ NoDuplicates(S.InstitutionOrders) /\ NoDuplicates(S.OrdersByStatus)
C12_OrdNoDuplicates(S) == NoDuplicates(S.UserOrders) /\ NoDuplicates(S.InstitutionOrders)

\* C12: in order and c2c-order, no order key occurs more than once within any
\* single bucket of UserOrders, InstitutionOrders or OrdersByStatus: in every
\* reachable state, and in the storage every create_order leaves from it, the
\* re-creation of a key that was just deleted included.
C12_NoDuplicateOrderKeys ==
    /\ C12_C2cNoDuplicates(c2c_order)
    /\ C12_OrdNoDuplicates(ord_order)
    /\ \A who \in AccountId :
           /\ \A a \in C2cCreateInputs :
                  C12_C2cNoDuplicates(c2c_create_order(who, a[1], a[2], a[3], a[4], a[5], a[6]).st)
           /\ \A a \in OrdCreateInputs :
                  C12_OrdNoDuplicates(
                      ord_create_order(who, a[1], a[2], a[3], a[4], a[5], a[6], a[7], a[8]).st)

\* An order has just been deleted while a second order stays in the buckets it
\* was listed in, and the deleted key can be created again into those buckets.
C12_Witness ==
    /\ last.call = "delete_order"
    /\ pallet = "c2c-order"
    /\ \E m \in MemberCode, i \in InstitutionId :
           /\ Len(c2c_order.UserOrders[m]) = 1
           /\ Len(c2c_order.InstitutionOrders[i]) = 1
           /\ Len(c2c_order.OrdersByStatus["Pending"]) = 1
           /\ c2c_create_order("alice", last.key, m, i, 1, 1, 1).res = "Ok"

\* C13 as stated: in c2c-token, whatever create_token, trade_token and
\* delete_token calls the accounts make, no (token_code, institution_code) pair
\* occurs more than once in any account's UserTokens bucket and no token code
\* occurs more than once in any InstitutionTokens bucket.
C13_NoDuplicateTokens ==
    NoDuplicates(c2c_token.UserTokens) /\ NoDuplicates(c2c_token.InstitutionTokens)

\* The half of C13 that is about the by-institution index.
C13_InstitutionTokensNoDuplicates == NoDuplicates(c2c_token.InstitutionTokens)

\* In storage S of an order pallet, every key listed in a by-owner or
\* by-institution bucket is the key of a stored order of that owner or
\* institution.
C14_ListedIsStored(S) ==
    /\ \A m \in DOMAIN S.UserOrders : \A i \in 1..Len(S.UserOrders[m]) :
           /\ S.UserOrders[m][i] \in DOMAIN S.Orders
           /\ S.Orders[S.UserOrders[m][i]].member_code = m
    /\ \A n \in DOMAIN S.InstitutionOrders : \A i \in 1..Len(S.InstitutionOrders[n]) :
           /\ S.InstitutionOrders[n][i] \in DOMAIN S.Orders
           /\ S.Orders[S.InstitutionOrders[n][i]].institution_code = n

\* C14: in order and c2c-order, every key listed in UserOrders[m] belongs to a
\* stored order whose member_code is m, and every key listed in
\* InstitutionOrders[i] belongs to a stored order whose institution_code is i.
C14_IndexedOrderIsStored == C14_ListedIsStored(c2c_order) /\ C14_ListedIsStored(ord_order)

\* A plain order has just been deleted out of buckets that still list a
\* second order.
C14_Witness ==
    /\ pallet = "order"
    /\ last.call = "delete_order"
    /\ \E m \in MemberCode, n \in InstitutionId :
           /\ Len(ord_order.UserOrders[m]) = 1
           /\ Len(ord_order.InstitutionOrders[n]) = 1
           /\ ord_order.UserOrders[m] = ord_order.InstitutionOrders[n]

\* In storage S of an order pallet, every stored order is listed exactly once
\* in its owner's and exactly once in its institution's bucket.
C15_StoredIsListedOnce(S) ==
    \A k \in DOMAIN S.Orders :
        /\ Count(S.UserOrders[S.Orders[k].member_code], k) = 1
        /\ Count(S.InstitutionOrders[S.Orders[k].institution_code], k) = 1

\* C15: in order and c2c-order, every stored order appears exactly once in
\* UserOrders[order.member_code] and exactly once in
\* InstitutionOrders[order.institution_code].
C15_StoredOrderIndexedOnce == C15_StoredIsListedOnce(c2c_order) /\ C15_StoredIsListedOnce(ord_order)

\* Two c2c-order orders of one member and one institution are stored, the
\* second one created while the first was listed.
C15_Witness ==
    /\ pallet = "c2c-order"
    /\ last.call = "create_order"
    /\ Cardinality(DOMAIN c2c_order.Orders) = 2
    /\ \E m \in MemberCode, n \in InstitutionId :
           /\ Len(c2c_order.UserOrders[m]) = 2
           /\ Len(c2c_order.InstitutionOrders[n]) = 2

\* The outcome `out` of a call on the stored c2c-order order k is the failure
\* InvalidStatusTransition, with the order's status and updated_time and every
\* by-status bucket as they were.
C16_Refused(out, k) ==
    /\ out.res = "InvalidStatusTransition"
    /\ out.st.Orders[k].status = c2c_order.Orders[k].status
    /\ out.st.Orders[k].updated_time = c2c_order.Orders[k].updated_time
    /\ out.st.OrdersByStatus = c2c_order.OrdersByStatus

\* C16: in c2c-order, cancel_order by the creator succeeds only from Pending or
\* Paid and complete_order by the creator succeeds only from Delivered or
\* Notarizing; from any other status the call fails with
\* InvalidStatusTransition and leaves the status, updated_time and all
\* by-status buckets unchanged.
C16_CancelCompleteSources ==
    \A k \in DOMAIN c2c_order.Orders :
        LET order == c2c_order.Orders[k]
            cancelled == c2c_cancel_order(order.creator, k)
            completed == c2c_complete_order(order.creator, k)
        IN
        /\ cancelled.res = "Ok" => order.status \in {"Pending", "Paid"}
        /\ order.status \notin {"Pending", "Paid"} => C16_Refused(cancelled, k)
        /\ completed.res = "Ok" => order.status \in {"Delivered", "Notarizing"}
        /\ order.status \notin {"Delivered", "Notarizing"} => C16_Refused(completed, k)

\* In a later block than its last update, an order under notarization is
\* refused by cancel_order and accepted by complete_order, both called by its
\* creator.
C16_Witness ==
    \E k \in DOMAIN c2c_order.Orders :
        /\ c2c_order.Orders[k].status = "Notarizing"
        /\ c2c_order.Orders[k].updated_time < now
        /\ c2c_cancel_order(c2c_order.Orders[k].creator, k).res = "InvalidStatusTransition"
        /\ c2c_complete_order(c2c_order.Orders[k].creator, k).res = "Ok"

\* The outcomes of every c2c-order command any caller can issue in the current
\* state, the delete_order of order k left out.
C17_C2cCommands(k) ==
    UNION {C2cStatusCalls(who, c) : who \in AccountId, c \in OrderCodeInputs}
    \cup {c2c_create_order(who, a[1], a[2], a[3], a[4], a[5], a[6]) :
              who \in AccountId, a \in C2cCreateInputs}
    \cup {c2c_delete_order(who, c) : who \in AccountId, c \in OrderCodeInputs \ {k}}

\* The same for the plain order pallet.
C17_OrdCommands(k) ==
    {ord_update_order_status(who, a[1], a[2]) : who \in AccountId, a \in StatusCallInputs}
    \cup {ord_update_express_info(who, a[1], a[2], a[3]) : who \in AccountId, a \in OrdExpressInputs}
    \cup {ord_cancel_order(who, c) : who \in AccountId, c \in OrderCodeInputs}
    \cup {ord_create_order(who, a[1], a[2], a[3], a[4], a[5], a[6], a[7], a[8]) :
              who \in AccountId, a \in OrdCreateInputs}
    \cup {ord_delete_order(who, c) : who \in AccountId, c \in OrderCodeInputs \ {k}}

\* In the outcome `out`, order k of storage S is stored with the status it has
\* in S.
C17_StatusKept(S, out, k) ==
    k \in DOMAIN out.st.Orders /\ out.st.Orders[k].status = S.Orders[k].status

\* C17: terminal statuses are absorbing.  Once a c2c-order order is Cancelled
\* or Completed, and once a plain order is Cancelled or Refunded, no command by
\* any caller changes its status; delete_order of the order either removes the
\* record or leaves its status too.
C17_TerminalStatusAbsorbing ==
    /\ \A k \in DOMAIN c2c_order.Orders :
           c2c_order.Orders[k].status \in {"Cancelled", "Completed"} =>
               /\ \A out \in C17_C2cCommands(k) : C17_StatusKept(c2c_order, out, k)
               /\ \A who \in AccountId :
                      LET out == c2c_delete_order(who, k) IN
                      k \notin DOMAIN out.st.Orders \/ C17_StatusKept(c2c_order, out, k)
    /\ \A k \in DOMAIN ord_order.Orders :
           ord_order.Orders[k].status \in {"Cancelled", "Refunded"} =>
               /\ \A out \in C17_OrdCommands(k) : C17_StatusKept(ord_order, out, k)
               /\ \A who \in AccountId :
                      LET out == ord_delete_order(who, k) IN
                      k \notin DOMAIN out.st.Orders \/ C17_StatusKept(ord_order, out, k)

\* A refunded plain order sits next to a cancelled one, and its creator can
\* still update its express information.
C17_Witness ==
    /\ \E k \in DOMAIN ord_order.Orders : ord_order.Orders[k].status = "Cancelled"
    /\ \E k \in DOMAIN ord_order.Orders :
           /\ ord_order.Orders[k].status = "Refunded"
           /\ ord_update_express_info(ord_order.Orders[k].creator, k,
                  Bytes(MaxExpressCompanyLength), Bytes(MaxExpressNumberLength)).res = "Ok"

\* C18: after a successful c2c-order create_order the order is stored under its
\* key with status Pending, creator equal to the caller, created_time =
\* updated_time = the current block number and the given amounts; its key has
\* been appended as the last element of UserOrders[member_code],
\* InstitutionOrders[institution_code] and OrdersByStatus[Pending]; no other
\* record or bucket changes.
C18_CreateStoresPendingOrder ==
    \A who \in AccountId, a \in C2cCreateInputs :
        LET out == c2c_create_order(who, a[1], a[2], a[3], a[4], a[5], a[6]) IN
        out.res = "Ok" =>
            /\ DOMAIN out.st.Orders = DOMAIN c2c_order.Orders \cup {a[1]}
            /\ \A k \in DOMAIN c2c_order.Orders \ {a[1]} : out.st.Orders[k] = c2c_order.Orders[k]
            /\ out.st.Orders[a[1]].status = "Pending"
            /\ out.st.Orders[a[1]].creator = who
            /\ out.st.Orders[a[1]].created_time = now
            /\ out.st.Orders[a[1]].updated_time = now
            /\ out.st.Orders[a[1]].transaction_amount = a[5]
            /\ out.st.Orders[a[1]].total_amount = a[6]
            /\ out.st.UserOrders = [c2c_order.UserOrders EXCEPT ![a[2]] = Append(@, a[1])]
            /\ out.st.InstitutionOrders =
                   [c2c_order.InstitutionOrders EXCEPT ![a[3]] = Append(@, a[1])]
            /\ out.st.OrdersByStatus =
                   [c2c_order.OrdersByStatus EXCEPT !["Pending"] = Append(@, a[1])]

\* create_order has just stored a second order, in a later block than the
\* first, behind the first in all three of its buckets.
C18_Witness ==
    /\ last.call = "create_order"
    /\ last.key \in DOMAIN c2c_order.Orders
    /\ c2c_order.Orders[last.key].created_time = now
    /\ \E k \in DOMAIN c2c_order.Orders : c2c_order.Orders[k].created_time < now
    /\ LET order == c2c_order.Orders[last.key] IN
       \A bucket \in {c2c_order.UserOrders[order.member_code],
                      c2c_order.InstitutionOrders[order.institution_code],
                      c2c_order.OrdersByStatus["Pending"]} :
           Len(bucket) = 2 /\ bucket[2] = last.key

\* If the outcome `out` of a status command on the stored c2c-order order k is
\* Ok, it has moved the order from its status to `to`: the status is `to`,
\* updated_time is the current block number, the key is gone from the bucket
\* of the old status and is the last element of the bucket of `to`, and every
\* other by-status bucket is as it was.
C19_Moved(out, k, to) ==
    LET from == c2c_order.Orders[k].status IN
    out.res = "Ok" =>
        /\ out.st.Orders[k].status = to
        /\ out.st.Orders[k].updated_time = now
        /\ ~contains(out.st.OrdersByStatus[from], k)
        /\ Len(out.st.OrdersByStatus[to]) > 0
        /\ out.st.OrdersByStatus[to][Len(out.st.OrdersByStatus[to])] = k
        /\ \A other \in C2cOrderStatus \ {from, to} :
               out.st.OrdersByStatus[other] = c2c_order.OrdersByStatus[other]

\* C19: after a successful c2c-order status change (update_order_status,
\* cancel_order or complete_order) from status S to status S', the order's
\* status is S', its updated_time is the current block number, its key is no
\* longer in OrdersByStatus[S] and is the last element of OrdersByStatus[S'],
\* and no other by-status bucket changes.
C19_StatusChangeMovesKey ==
    \A who \in AccountId, k \in DOMAIN c2c_order.Orders :
        /\ \A status \in StatusInputs :
               C19_Moved(c2c_update_order_status(who, k, status), k, c2c_status_from_u8(status))
        /\ C19_Moved(c2c_cancel_order(who, k), k, "Cancelled")
        /\ C19_Moved(c2c_complete_order(who, k), k, "Completed")

\* A status command has just moved an order, in a later block than its
\* creation, behind another order in the bucket of its new status.
C19_Witness ==
    /\ last.call \in {"update_order_status", "cancel_order", "complete_order"}
    /\ last.key \in DOMAIN c2c_order.Orders
    /\ LET order == c2c_order.Orders[last.key] IN
       /\ order.created_time < now
       /\ order.updated_time = now
       /\ Len(c2c_order.OrdersByStatus[order.status]) = 2
       /\ c2c_order.OrdersByStatus[order.status][2] = last.key

\* The amounts <<transaction_amount, total_amount>> that create_order is to
\* refuse: transaction_amount = 0, or total_amount < transaction_amount.
C20_BadAmounts == {<<0, 0>>, <<0, 1>>, <<2, 1>>}

\* Every stored c2c-order order has transaction_amount > 0 and
\* total_amount >= transaction_amount.
C20_StoredAmountsValid ==
    \A k \in DOMAIN c2c_order.Orders :
        /\ c2c_order.Orders[k].transaction_amount > 0
        /\ c2c_order.Orders[k].total_amount >= c2c_order.Orders[k].transaction_amount

\* C20 as stated: c2c-order create_order with transaction_amount = 0 or with
\* total_amount < transaction_amount fails with InvalidAmount and stores
\* nothing, and every stored order has transaction_amount > 0 and
\* total_amount >= transaction_amount.
C20_BadAmountGetsInvalidAmount ==
    /\ \A who \in AccountId, c \in OrderCodeInputs, m \in MemberCodeInputs :
           \A i \in InstitutionIdInputs, d \in 0..2, amt \in C20_BadAmounts :
               LET out == c2c_create_order(who, c, m, i, d, amt[1], amt[2]) IN
               out.res = "InvalidAmount" /\ out.st = Begin(c2c_order)
    /\ C20_StoredAmountsValid

\* C20, amended: such a create_order never succeeds and stores nothing.  It
\* fails with StringConversionError when the order code is over-long, with
\* OrderCodeAlreadyExists when the key is stored, and with InvalidAmount
\* otherwise, whatever the other arguments; and every stored order has
\* transaction_amount > 0 and total_amount >= transaction_amount.
C20_BadAmountNeverStored ==
    /\ \A who \in AccountId, c \in OrderCodeInputs, m \in MemberCodeInputs :
           \A i \in InstitutionIdInputs, d \in 0..2, amt \in C20_BadAmounts :
               LET out == c2c_create_order(who, c, m, i, d, amt[1], amt[2]) IN
               /\ out.st = Begin(c2c_order)
               /\ out.res = IF Len(c) > MaxOrderCodeLength THEN "StringConversionError"
                             ELSE IF c \in DOMAIN c2c_order.Orders THEN "OrderCodeAlreadyExists"
                             ELSE "InvalidAmount"
    /\ C20_StoredAmountsValid

\* One order is stored: a create_order with a bad amount is refused with
\* OrderCodeAlreadyExists on its key and with InvalidAmount on a fresh key.
C20_Witness ==
    \E k \in DOMAIN c2c_order.Orders, fresh \in OrderCode \ DOMAIN c2c_order.Orders :
        /\ c2c_create_order("alice", k, Bytes(0), Bytes(0), 1, 0, 1).res = "OrderCodeAlreadyExists"
        /\ c2c_create_order("alice", fresh, Bytes(0), Bytes(0), 1, 2, 1).res = "InvalidAmount"

\* Every stored product has current_price <= original_price.
C21_StoredPricesValid ==
    \A k \in DOMAIN prod_product.Products :
        prod_product.Products[k].current_price <= prod_product.Products[k].original_price

\* create_product calls with current_price > original_price, names that fit
\* and names that do not.
C21_BadCreates ==
    {[ProdArgs(k[1], k[2]) EXCEPT ![3] = name, ![7] = p[1], ![8] = p[2]] :
        k \in PairInputs(ProductCode, MaxProductCodeLength),
        name \in {Bytes(0), Bytes(MaxNameLength + 1)},
        p \in {<<0, 1>>, <<1, 2>>, <<2, U32_MAX>>}}

\* update_product_info fields: every choice of the two prices, with and without
\* a product_name (fitting or over-long) and an over-long description.
C21_Updates ==
    {[NoProdInfo EXCEPT ![1] = name, ![4] = op, ![5] = cp, ![6] = desc] :
        name \in {None, Some(Bytes(1)), Some(Bytes(MaxNameLength + 1))},
        op \in {None} \cup {Some(v) : v \in 0..U32_MAX},
        cp \in {None} \cup {Some(v) : v \in 0..U32_MAX},
        desc \in {None, Some(Bytes(MaxDescriptionLength + 1))}}

\* The price pair update_product_info with fields a would leave in the stored
\* product k breaks current_price <= original_price.
C21_WouldViolate(k, a) ==
    set_if_some(a[5], prod_product.Products[k].current_price)
        > set_if_some(a[4], prod_product.Products[k].original_price)

\* C21 as stated: every stored product has current_price <= original_price;
\* create_product with current_price > original_price is rejected with
\* InvalidPrice; update_product_info, whichever prices it supplies, is rejected
\* with InvalidPrice and persists nothing when the resulting pair would break
\* the constraint.
C21_BadPriceGetsInvalidPrice ==
    /\ C21_StoredPricesValid
    /\ \A who \in AccountId, a \in C21_BadCreates :
           LET out == prod_create_product(who, a) IN
           out.res = "InvalidPrice" /\ out.st = Begin(prod_product)
    /\ \A who \in AccountId, k \in DOMAIN prod_product.Products, a \in C21_Updates :
           C21_WouldViolate(k, a) =>
               LET out == prod_update_product_info(who, k[1], k[2], a) IN
               out.res = "InvalidPrice" /\ out.st = Begin(prod_product)

\* C21, amended: the invariant holds, and the two commands never succeed and
\* persist nothing in those cases.  create_product fails with
\* StringConversionError for an over-long code, ProductAlreadyExists for a
\* stored key and InvalidPrice otherwise; update_product_info fails with
\* NotAuthorized for a caller who is not the creator, StringConversionError for
\* an over-long product_name and InvalidPrice otherwise.
C21_BadPriceNeverStored ==
    /\ C21_StoredPricesValid
    /\ \A who \in AccountId, a \in C21_BadCreates :
           LET out == prod_create_product(who, a) IN
           /\ out.st = Begin(prod_product)
           /\ out.res = IF Len(a[1]) > MaxProductCodeLength
                           \/ Len(a[2]) > MaxInstitutionCodeLength
                        THEN "StringConversionError"
                        ELSE IF <<a[1], a[2]>> \in DOMAIN prod_product.Products
                        THEN "ProductAlreadyExists"
                        ELSE "InvalidPrice"
    /\ \A who \in AccountId, k \in DOMAIN prod_product.Products, a \in C21_Updates :
           C21_WouldViolate(k, a) =>
               LET out == prod_update_product_info(who, k[1], k[2], a) IN
               /\ out.st = Begin(prod_product)
               /\ out.res = IF who # prod_product.Products[k].creator THEN "NotAuthorized"
                            ELSE IF too_long(a[1], MaxNameLength) THEN "StringConversionError"
                            ELSE "InvalidPrice"

\* update_product_info has raised both prices of a product, so that supplying
\* only a lower original_price, or only a higher current_price, would break
\* the constraint.
C21_Witness ==
    /\ last.call = "update_product_info"
    /\ last.key \in DOMAIN prod_product.Products
    /\ prod_product.Products[last.key].original_price = 2
    /\ prod_product.Products[last.key].current_price = 2
    /\ prod_update_product_info(prod_product.Products[last.key].creator, last.key[1], last.key[2],
           [NoProdInfo EXCEPT ![4] = Some(1)]).res = "InvalidPrice"

\* Every command any caller can issue to c2c-order in the current state, as
\* <<order code addressed, outcome>>.
C22_C2cCommands ==
    {<<a[1], c2c_create_order(who, a[1], a[2], a[3], a[4], a[5], a[6])>> :
        who \in AccountId, a \in C2cCreateInputs}
    \cup {<<a[1], c2c_update_order_status(who, a[1], a[2])>> :
             who \in AccountId, a \in StatusCallInputs}
    \cup UNION {{<<c, c2c_cancel_order(who, c)>>, <<c, c2c_complete_order(who, c)>>,
                 <<c, c2c_delete_order(who, c)>>} : who \in AccountId, c \in OrderCodeInputs}

\* The same for the plain order pallet.
C22_OrdCommands ==
    {<<a[1], ord_create_order(who, a[1], a[2], a[3], a[4], a[5], a[6], a[7], a[8])>> :
        who \in AccountId, a \in OrdCreateInputs}
    \cup {<<a[1], ord_update_order_status(who, a[1], a[2])>> :
             who \in AccountId, a \in StatusCallInputs}
    \cup {<<a[1], ord_update_express_info(who, a[1], a[2], a[3])>> :
             who \in AccountId, a \in OrdExpressInputs}
    \cup UNION {{<<c, ord_cancel_order(who, c)>>, <<c, ord_delete_order(who, c)>>} :
                   who \in AccountId, c \in OrderCodeInputs}

\* In storage S of an order pallet every order has
\* created_time <= updated_time <= the current block number, and each command
\* cmd = <<key, outcome>> keeps or raises the updated_time of every order it
\* leaves stored, changes it only if it succeeds and is addressed to that
\* order, and changes no order at all if it fails.
C22_Timestamps(S, commands) ==
    /\ \A k \in DOMAIN S.Orders :
           S.Orders[k].created_time <= S.Orders[k].updated_time /\ S.Orders[k].updated_time <= now
    /\ \A cmd \in commands :
           /\ cmd[2].res # "Ok" => cmd[2].st.Orders = S.Orders
           /\ \A k \in DOMAIN S.Orders \cap DOMAIN cmd[2].st.Orders :
                  /\ cmd[2].st.Orders[k].updated_time >= S.Orders[k].updated_time
                  /\ cmd[2].st.Orders[k].updated_time # S.Orders[k].updated_time =>
                         cmd[2].res = "Ok" /\ cmd[1] = k

\* C22: in order and c2c-order, with block numbers that never decrease, every
\* stored order has created_time <= updated_time, updated_time never decreases
\* during the record's lifetime, and it changes only in a command that
\* succeeds on that order.
C22_UpdatedTimeMonotone ==
    C22_Timestamps(c2c_order, C22_C2cCommands) /\ C22_Timestamps(ord_order, C22_OrdCommands)

\* update_express_info has just stamped, in block 1, a plain order created in
\* block 0.
C22_Witness ==
    /\ last.call = "update_express_info"
    /\ last.key \in DOMAIN ord_order.Orders
    /\ ord_order.Orders[last.key].created_time < ord_order.Orders[last.key].updated_time
    /\ ord_order.Orders[last.key].updated_time = now

\* Every command but purchase_product that any caller can issue to the product
\* pallet in the current state, as <<key addressed, outcome>>.
C23_ProdCommands ==
    {<<<<a[1], a[2]>>, prod_create_product(who, a)>> : who \in AccountId, a \in ProdCreateInputs}
    \cup UNION {{<<k, prod_update_product_info(who, k[1], k[2], a)>> : a \in ProdInfoInputs}
                \cup {<<k, prod_update_product_status(who, k[1], k[2], status)>> : status \in 0..2}
                \cup {<<k, prod_update_stock(who, k[1], k[2], q)>> : q \in 0..2}
                \cup {<<k, prod_delete_product(who, k[1], k[2])>>} :
                   who \in AccountId, k \in PairInputs(ProductCode, MaxProductCodeLength)}

\* Every purchase_product, likewise.
C23_ProdPurchases ==
    {<<k, prod_purchase_product(who, k[1], k[2], q)>> :
        who \in AccountId, k \in PairInputs(ProductCode, MaxProductCodeLength), q \in 0..2}

\* A successful command cmd has deposited exactly one event, which carries the
\* (code, institution_code) it was addressed to; a failed one has deposited
\* none.
C23_OneEvent(cmd) ==
    IF cmd[2].res = "Ok"
    THEN /\ Len(cmd[2].st.Events) = 1
         /\ <<cmd[2].st.Events[1][2], cmd[2].st.Events[1][3]>> = cmd[1]
    ELSE cmd[2].st.Events = <<>>

\* C23 as stated, for the product pallet: every successful command, from
\* create_product to purchase_product, emits exactly one primary event carrying
\* the affected primary key, and a command that fails emits none.
C23_OneEventPerSuccess == \A cmd \in C23_ProdCommands \cup C23_ProdPurchases : C23_OneEvent(cmd)

\* The same without purchase_product.
C23_OneEventExceptPurchase == \A cmd \in C23_ProdCommands : C23_OneEvent(cmd)

\* The events of the outcome `out` of a status command that moved the stored
\* c2c-order order k: one primary event and, after a move into Completed or
\* Notarizing, the secondary OrderCompleted or OrderNotarizing behind it; one
\* event and no secondary one after a move into any other status.
C24_Events(out, k) ==
    LET to == out.st.Orders[k].status IN
    out.res = "Ok" =>
        CASE to = "Completed" ->
                 /\ Len(out.st.Events) = 2
                 /\ out.st.Events[1][1] # "OrderCompleted"
                 /\ out.st.Events[2] = <<"OrderCompleted", k>>
          [] to = "Notarizing" ->
                 /\ Len(out.st.Events) = 2
                 /\ out.st.Events[1][1] # "OrderNotarizing"
                 /\ out.st.Events[2] = <<"OrderNotarizing", k>>
          [] OTHER -> Len(out.st.Events) = 1

\* C24 as stated: in c2c-order every status change into Completed emits the
\* secondary OrderCompleted alongside the primary status event and every change
\* into Notarizing emits OrderNotarizing alongside it, whichever command
\* performs the change; changes into any other status emit no secondary event.
C24_SecondaryEvents ==
    \A who \in AccountId, k \in DOMAIN c2c_order.Orders :
        \A out \in C2cStatusCalls(who, k) : C24_Events(out, k)

\* The same for update_order_status and cancel_order alone.
C24_SecondaryEventsOfUpdate ==
    \A who \in AccountId, k \in DOMAIN c2c_order.Orders :
        \A out \in C2cStatusCalls(who, k) \ {c2c_complete_order(who, k)} : C24_Events(out, k)

\* The record a field update must leave: the fields named by `names` whose
\* argument in `a` is Some(v) hold v, every other field is as before.
C25_Expected(rec, names, a) ==
    [f \in DOMAIN rec |->
        IF \E i \in 1..Len(names) : names[i] = f /\ a[i] # None
        THEN a[CHOOSE i \in 1..Len(names) : names[i] = f][1]
        ELSE rec[f]]

\* A successful update of the record at key in store.map changes that record
\* to C25_Expected and nothing else of the pallet's storage.
C25_Frame(store, out, map, key, names, a) ==
    out.res = "Ok" =>
        [f \in DOMAIN store |-> out.st[f]]
            = [store EXCEPT ![map][key] = C25_Expected(store[map][key], names, a)]

C25_ProdFields ==
    <<"product_name", "category", "brand", "original_price", "current_price",
      "description", "main_image", "weight", "profit_ratio">>
C25_ProdInputs ==
    ProdInfoInputs
    \cup {[NoProdInfo EXCEPT ![i] = Some(v)] : i \in {1, 2, 3, 6, 7}, v \in {Bytes(0), Bytes(1)}}
    \cup {[NoProdInfo EXCEPT ![i] = Some(v)] : i \in {4, 5, 8, 9}, v \in {0, 2}}
    \cup {<<Some(Bytes(1)), Some(Bytes(1)), Some(Bytes(1)), Some(2), Some(1),
            Some(Bytes(1)), Some(Bytes(1)), Some(2), Some(2)>>}

C25_TokFields == <<"token_name", "category", "price", "token_trade_direction">>
C25_TokInputs ==
    {None, Some(Bytes(0)), Some(Bytes(1)), Some(Bytes(2))}
    \X {None, Some(Bytes(0)), Some(Bytes(1)), Some(Bytes(2))}
    \X {None, Some(0), Some(2)}
    \X {None, Some(0), Some(1), Some(2)}
\* The value stored for a supplied direction code.
C25_TokStored(a) ==
    [a EXCEPT ![4] = IF @ = None THEN None ELSE Some(IF @[1] = 0 THEN "Sell" ELSE "Buy")]

C25_InstFields ==
    <<"institution_name", "institution_full_name", "license_image_url",
      "responsible_person", "business_scope", "profit_contract">>
C25_InstInputs == [1..6 -> {None, Some(Bytes(1))}]
\* profit_contract is itself optional: a supplied contract v is stored as Some(v).
C25_InstStored(a) == [a EXCEPT ![6] = IF @ = None THEN None ELSE Some(@)]

C25_FreightFields == <<"first_weight", "first_weight_fee", "additional_weight_fee">>
C25_FreightInputs == [1..3 -> {None, Some(0), Some(2)}]

\* C25: a successful field update (update_institution_info,
\* update_product_info, update_token_info, update_freight_template) sets
\* exactly the fields supplied as Some to the supplied values and leaves every
\* other field of the stored record it addresses, every other record and every
\* index bucket unchanged; with every optional field None the creator's call succeeds and
\* leaves the record unchanged.
C25_UpdateSetsSuppliedFields ==
    /\ \A who \in AccountId, k \in DOMAIN prod_product.Products, a \in C25_ProdInputs :
           C25_Frame(prod_product, prod_update_product_info(who, k[1], k[2], a),
                     "Products", k, C25_ProdFields, a)
    /\ \A who \in AccountId, k \in DOMAIN c2c_token.Tokens, a \in C25_TokInputs :
           C25_Frame(c2c_token, tok_update_token_info(who, k[1], k[2], a),
                     "Tokens", k, C25_TokFields, C25_TokStored(a))
    /\ \A who \in AccountId, id \in DOMAIN inst_institution.Institutions,
          a \in C25_InstInputs :
           C25_Frame(inst_institution, inst_update_institution_info(who, id, a),
                     "Institutions", id, C25_InstFields, C25_InstStored(a))
    /\ \A who \in AccountId, area \in DOMAIN freight_template.FreightTemplates,
          a \in C25_FreightInputs :
           C25_Frame(freight_template,
                     freight_update_freight_template(who, area, a[1], a[2], a[3]),
                     "FreightTemplates", area, C25_FreightFields, a)
    /\ \A k \in DOMAIN prod_product.Products :
           LET out == prod_update_product_info(prod_product.Products[k].creator,
                                               k[1], k[2], NoProdInfo)
           IN out.res = "Ok" /\ out.st.Products = prod_product.Products
    /\ \A k \in DOMAIN c2c_token.Tokens :
           LET out == tok_update_token_info(c2c_token.Tokens[k].creator, k[1], k[2], NoTokInfo)
           IN out.res = "Ok" /\ out.st.Tokens = c2c_token.Tokens
    /\ \A id \in DOMAIN inst_institution.Institutions :
           LET out == inst_update_institution_info(inst_institution.Institutions[id].creator,
                                                   id, NoInstInfo)
           IN out.res = "Ok" /\ out.st.Institutions = inst_institution.Institutions
    /\ \A area \in DOMAIN freight_template.FreightTemplates :
           LET out == freight_update_freight_template(
                          freight_template.FreightTemplates[area].creator, area,
                          None, None, None)
           IN out.res = "Ok" /\ out.st.FreightTemplates = freight_template.FreightTemplates

\* A freight template whose first weight and second fee were updated while its
\* first-weight fee kept the value it was created with.
C25_Witness ==
    /\ last.call = "update_freight_template"
    /\ \E area \in DOMAIN freight_template.FreightTemplates :
           LET t == freight_template.FreightTemplates[area]
           IN t.first_weight = 2 /\ t.first_weight_fee = 0 /\ t.additional_weight_fee = 1

\* Updates that supply a valid name and then a field the command rejects.
C26_ProdInputs ==
    {[NoProdInfo EXCEPT ![1] = Some(Bytes(1)), ![2] = Some(Bytes(MaxCategoryLength + 1))],
     [NoProdInfo EXCEPT ![1] = Some(Bytes(1)), ![3] = Some(Bytes(MaxBrandLength + 1))],
     [NoProdInfo EXCEPT ![1] = Some(Bytes(1)), ![4] = Some(0), ![5] = Some(U32_MAX)],
     [NoProdInfo EXCEPT ![1] = Some(Bytes(1)), ![4] = Some(2), ![6] = Some(Bytes(MaxDescriptionLength + 1))],
     [NoProdInfo EXCEPT ![1] = Some(Bytes(1)), ![7] = Some(Bytes(MaxImageUrlLength + 1))]}
C26_TokInputs ==
    {[NoTokInfo EXCEPT ![1] = Some(Bytes(1)), ![2] = Some(Bytes(MaxCategoryLength + 1))],
     [NoTokInfo EXCEPT ![1] = Some(Bytes(1)), ![3] = Some(0)],
     [NoTokInfo EXCEPT ![1] = Some(Bytes(1)), ![3] = Some(2), ![4] = Some(2)]}
C26_InstInputs ==
    {[NoInstInfo EXCEPT ![1] = Some(Bytes(1)), ![2] = Some(Bytes(MaxNameLength + 1))],
     [NoInstInfo EXCEPT ![1] = Some(Bytes(1)), ![3] = Some(Bytes(MaxNameLength + 1))],
     [NoInstInfo EXCEPT ![1] = Some(Bytes(1)), ![4] = Some(Bytes(MaxResponsiblePersonLength + 1))],
     [NoInstInfo EXCEPT ![1] = Some(Bytes(1)), ![5] = Some(Bytes(MaxBusinessScopeLength + 1))],
     [NoInstInfo EXCEPT ![1] = Some(Bytes(1)), ![6] = Some(Bytes(MaxContractLength + 1))]}

\* C26: when update_product_info, update_token_info or update_institution_info
\* supplies a valid earlier field and a later field that is rejected, the
\* call fails and the pallet's storage, the addressed record included, is what
\* it was before the call.
C26_RejectedUpdatePersistsNothing ==
    /\ \A who \in AccountId, k \in DOMAIN prod_product.Products, a \in C26_ProdInputs :
           LET out == prod_update_product_info(who, k[1], k[2], a)
           IN out.res # "Ok" /\ out.st = Begin(prod_product)
    /\ \A who \in AccountId, k \in DOMAIN c2c_token.Tokens, a \in C26_TokInputs :
           LET out == tok_update_token_info(who, k[1], k[2], a)
           IN out.res # "Ok" /\ out.st = Begin(c2c_token)
    /\ \A who \in AccountId, id \in DOMAIN inst_institution.Institutions, a \in C26_InstInputs :
           LET out == inst_update_institution_info(who, id, a)
           IN out.res # "Ok" /\ out.st = Begin(inst_institution)

\* A stored product with an empty name whose creator supplies a new name and
\* an over-long main image: the closure has already assigned the name when it
\* rejects the image.
C26_Witness ==
    \E k \in DOMAIN prod_product.Products :
        LET product == prod_product.Products[k]
            a == [NoProdInfo EXCEPT ![1] = Some(Bytes(1)),
                                    ![7] = Some(Bytes(MaxImageUrlLength + 1))]
            c == prod_update_product_info_closure(product, a[1], a[2], a[3], a[4], a[5],
                                                  a[6], a[7], a[8], a[9])
        IN /\ product.product_name = Bytes(0)
           /\ c.res = "StringConversionError"
           /\ c.val.product_name = Bytes(1)
           /\ prod_update_product_info(product.creator, k[1], k[2], a).res
                  = "StringConversionError"

\* Some stored payment-method record was created by `creator`: the last
\* committed call is the set_payment_method that created it.
C27_CreatedBy(id, creator) ==
    /\ last = [call |-> "set_payment_method", key |-> id]
    /\ events = <<<<"PaymentMethodCreated", id, creator>>>>
    /\ id \in DOMAIN payment_method.PaymentMethods

\* What another account may attempt on the record of institution id.
C27_Attempts(who, id) ==
    {pay_set_payment_method(who, id, Some(Bytes(0)), None, None, None),
     pay_remove_payment_method(who, id)}
    \cup {pay_update_payment_field(who, id, field_type, value) :
            field_type \in 0..3, value \in {None, Some(Bytes(0))}}

\* C27: an account other than the one that created an institution's
\* payment-method record never succeeds in overwriting it (set_payment_method),
\* changing it (update_payment_field) or deleting it (remove_payment_method),
\* and the record is unchanged after the attempt.
C27_OnlyCreatorChangesPaymentMethod ==
    \A id \in InstitutionId, creator \in AccountId :
        C27_CreatedBy(id, creator) =>
            \A who \in AccountId \ {creator} : \A out \in C27_Attempts(who, id) :
                /\ out.res # "Ok"
                /\ out.st.PaymentMethods = payment_method.PaymentMethods

\* Outcomes of every command of pallet product that `who` can issue.
C28_ProdAttempts(who) ==
    {prod_update_product_info(who, k[1], k[2], a) : k \in ProductCode \X InstitutionCode,
                                                   a \in ProdInfoInputs}
    \cup {prod_update_product_status(who, k[1], k[2], s) : k \in ProductCode \X InstitutionCode,
                                                          s \in 0..1}
    \cup {prod_update_stock(who, k[1], k[2], n) : k \in ProductCode \X InstitutionCode,
                                                 n \in {0, 2}}
    \cup {prod_delete_product(who, k[1], k[2]) : k \in ProductCode \X InstitutionCode}
    \cup {prod_purchase_product(who, k[1], k[2], q) : k \in ProductCode \X InstitutionCode,
                                                     q \in {1, 2}}

\* Outcomes of every command of pallet c2c-token that `who` can issue.
C28_TokAttempts(who) ==
    {tok_update_token_info(who, k[1], k[2], a) : k \in TokenCode \X InstitutionCode,
                                                a \in TokInfoInputs}
    \cup {tok_update_token_status(who, k[1], k[2], s) : k \in TokenCode \X InstitutionCode,
                                                       s \in 0..1}
    \cup {tok_update_token_price(who, k[1], k[2], p) : k \in TokenCode \X InstitutionCode,
                                                      p \in {1, 2}}
    \cup {tok_update_stock(who, k[1], k[2], n) : k \in TokenCode \X InstitutionCode, n \in {0, 2}}
    \cup {tok_delete_token(who, k[1], k[2]) : k \in TokenCode \X InstitutionCode}
    \cup {tok_trade_token(who, k[1], k[2], q) : k \in TokenCode \X InstitutionCode, q \in {1, 2}}

\* C28: in the token and product pallets no command issued by an account other
\* than a record's creator changes any field of that record (stock_quantity
\* and sales_quantity included) or removes it.
C28_NonCreatorChangesNothing ==
    /\ \A k \in DOMAIN prod_product.Products :
           \A who \in AccountId \ {prod_product.Products[k].creator} :
               \A out \in C28_ProdAttempts(who) :
                   /\ k \in DOMAIN out.st.Products
                   /\ out.st.Products[k] = prod_product.Products[k]
    /\ \A k \in DOMAIN c2c_token.Tokens :
           \A who \in AccountId \ {c2c_token.Tokens[k].creator} :
               \A out \in C28_TokAttempts(who) :
                   /\ k \in DOMAIN out.st.Tokens
                   /\ out.st.Tokens[k] = c2c_token.Tokens[k]

\* bucket with every occurrence of key taken out and the remaining keys in
\* their order.
RECURSIVE C29_Without(_, _)
C29_Without(bucket, key) ==
    IF bucket = <<>> THEN <<>>
    ELSE IF Head(bucket) = key THEN C29_Without(Tail(bucket), key)
    ELSE <<Head(bucket)>> \o C29_Without(Tail(bucket), key)

\* Buckets of up to three keys out of three, duplicates included.
C29_Keys == {Bytes(0), Bytes(1), Bytes(2)}
C29_Buckets == UNION {[1..n -> C29_Keys] : n \in 0..3}

\* C29: index buckets keep insertion order.  An add appends the key at the
\* end of the bucket; removing a key, on delete_order or on a status move,
\* deletes all its occurrences and keeps the relative order of the remaining
\* keys; removing a key that is not in the bucket leaves the bucket unchanged.
C29_BucketsKeepInsertionOrder ==
    /\ \A bucket \in C29_Buckets, key \in C29_Keys :
           /\ retain_ne(bucket, key) = C29_Without(bucket, key)
           /\ ~contains(bucket, key) => retain_ne(bucket, key) = bucket
    /\ \A who \in AccountId, a \in C2cCreateInputs :
           LET out == c2c_create_order(who, a[1], a[2], a[3], a[4], a[5], a[6]) IN
           out.res = "Ok" =>
               /\ out.st.UserOrders = [c2c_order.UserOrders EXCEPT ![a[2]] = Append(@, a[1])]
               /\ out.st.InstitutionOrders =
                      [c2c_order.InstitutionOrders EXCEPT ![a[3]] = Append(@, a[1])]
               /\ out.st.OrdersByStatus =
                      [c2c_order.OrdersByStatus EXCEPT !["Pending"] = Append(@, a[1])]
    /\ \A who \in AccountId, k \in DOMAIN c2c_order.Orders :
           LET order == c2c_order.Orders[k]
               out == c2c_delete_order(who, k)
           IN out.res = "Ok" =>
               /\ out.st.UserOrders =
                      [c2c_order.UserOrders EXCEPT ![order.member_code] = C29_Without(@, k)]
               /\ out.st.InstitutionOrders =
                      [c2c_order.InstitutionOrders EXCEPT
                          ![order.institution_code] = C29_Without(@, k)]
               /\ out.st.OrdersByStatus =
                      [c2c_order.OrdersByStatus EXCEPT ![order.status] = C29_Without(@, k)]
    /\ \A who \in AccountId, k \in DOMAIN c2c_order.Orders, status \in StatusInputs :
           LET order == c2c_order.Orders[k]
               out == c2c_update_order_status(who, k, status)
           IN out.res = "Ok" =>
               out.st.OrdersByStatus =
                   [[c2c_order.OrdersByStatus EXCEPT ![order.status] = C29_Without(@, k)]
                       EXCEPT ![c2c_status_from_u8(status)] = Append(@, k)]
    /\ \A who \in AccountId, k \in DOMAIN ord_order.Orders :
           LET o == ord_order.Orders[k]
               out == ord_delete_order(who, k)
           IN out.res = "Ok" =>
               /\ out.st.UserOrders =
                      [ord_order.UserOrders EXCEPT ![o.member_code] = C29_Without(@, k)]
               /\ out.st.InstitutionOrders =
                      [ord_order.InstitutionOrders EXCEPT ![o.institution_code] = C29_Without(@, k)]

\* Two orders share a member's bucket and the creator of the first deletes it:
\* the bucket is left holding the second.
C29_Witness ==
    \E m \in DOMAIN c2c_order.UserOrders :
        LET bucket == c2c_order.UserOrders[m] IN
        /\ Len(bucket) = 2
        /\ bucket[1] # bucket[2]
        /\ bucket[1] \in DOMAIN c2c_order.Orders
        /\ LET out == c2c_delete_order(c2c_order.Orders[bucket[1]].creator, bucket[1])
           IN out.res = "Ok" /\ out.st.UserOrders[m] = <<bucket[2]>>

\* The first check of the claimed order that a call of update_order_status
\* fails: the order exists, the caller is its creator, the code is at most 5,
\* the pair is in the graph.  "none" when it passes all four.
C30_FirstFailure(who, order_code, status) ==
    IF order_code \notin DOMAIN c2c_order.Orders THEN "OrderNotFound"
    ELSE IF c2c_order.Orders[order_code].creator # who THEN "NotAuthorized"
    ELSE IF status > 5 THEN "InvalidStatus"
    ELSE IF <<c2c_order.Orders[order_code].status, C6_Status[status + 1]>> \notin C6_Graph
    THEN "InvalidStatusTransition"
    ELSE "none"

\* The same with the conversion of the order code, which the command makes
\* before it looks the order up.
C30_FirstFailureOfCode(who, order_code, status) ==
    IF Len(order_code) > MaxOrderCodeLength THEN "StringConversionError"
    ELSE C30_FirstFailure(who, order_code, status)

\* C30 as stated: c2c-order update_order_status reports the first failing
\* check in the order absent -> OrderNotFound, non-creator -> NotAuthorized,
\* code > 5 -> InvalidStatus, pair not in the graph -> InvalidStatusTransition,
\* and the state is unchanged.
C30_FirstFailingCheck ==
    \A who \in AccountId, order_code \in OrderCodeInputs, status \in StatusInputs :
        LET out == c2c_update_order_status(who, order_code, status) IN
        C30_FirstFailure(who, order_code, status) # "none" =>
            /\ out.res = C30_FirstFailure(who, order_code, status)
            /\ out.st = Begin(c2c_order)

\* C30, amended: an over-long order code is rejected with
\* StringConversionError before the lookup; after that update_order_status
\* reports the first failing check in the order absent -> OrderNotFound,
\* non-creator -> NotAuthorized (even with an out-of-range code), code > 5 ->
\* InvalidStatus (never InvalidStatusTransition), pair not in the graph ->
\* InvalidStatusTransition; the state is unchanged in each case.
C30_FirstFailingCheckAfterConversion ==
    \A who \in AccountId, order_code \in OrderCodeInputs, status \in StatusInputs :
        LET out == c2c_update_order_status(who, order_code, status) IN
        C30_FirstFailureOfCode(who, order_code, status) # "none" =>
            /\ out.res = C30_FirstFailureOfCode(who, order_code, status)
            /\ out.st = Begin(c2c_order)

\* A stored order for which an out-of-range code gets NotAuthorized from
\* another account and InvalidStatus from the creator, while a second order
\* code is absent.
C30_Witness ==
    \E k \in DOMAIN c2c_order.Orders, who \in AccountId :
        /\ who # c2c_order.Orders[k].creator
        /\ c2c_update_order_status(who, k, 6).res = "NotAuthorized"
        /\ c2c_update_order_status(c2c_order.Orders[k].creator, k, 6).res = "InvalidStatus"
        /\ c2c_update_order_status(c2c_order.Orders[k].creator, k, 0).res
               = "InvalidStatusTransition"
        /\ \E absent \in OrderCode \ DOMAIN c2c_order.Orders :
               c2c_update_order_status(who, absent, 6).res = "OrderNotFound"

\* Arguments of the two create_order commands with every combination of
\* empty, maximum-length and over-long identifiers, and with the other
\* arguments valid or not.
C31_C2cCreates ==
    OrderCodeInputs \X MemberCodeInputs \X InstitutionIdInputs \X {1, 2} \X {0, 1} \X {1}
C31_OrdCreates ==
    OrderCodeInputs \X MemberCodeInputs \X InstitutionIdInputs \X {1} \X {None} \X {None}
        \X {None} \X {<<GoodItem>>, <<>>}

\* Outcomes of every command of the two order pallets that takes only an order
\* code, for the order code given.
C31_OrderCodeCommands(who, order_code) ==
    {<<c2c_order, c2c_update_order_status(who, order_code, status)>> : status \in StatusInputs}
    \cup {<<c2c_order, c2c_cancel_order(who, order_code)>>,
          <<c2c_order, c2c_delete_order(who, order_code)>>,
          <<c2c_order, c2c_complete_order(who, order_code)>>,
          <<ord_order, ord_cancel_order(who, order_code)>>,
          <<ord_order, ord_delete_order(who, order_code)>>,
          <<ord_order, ord_update_express_info(who, order_code, Bytes(0), Bytes(0))>>}
    \cup {<<ord_order, ord_update_order_status(who, order_code, status)>> : status \in StatusInputs}

\* An identifier among a create_order's three is over-long.
C31_OverLong(a) ==
    \/ Len(a[1]) > MaxOrderCodeLength
    \/ Len(a[2]) > MaxMemberCodeLength
    \/ Len(a[3]) > MaxInstitutionIdLength

\* A successful create stored the three identifiers as given, under the order
\* code as given.
C31_StoredAsGiven(out, a) ==
    out.res = "Ok" =>
        /\ a[1] \in DOMAIN out.st.Orders
        /\ out.st.Orders[a[1]].order_code = a[1]
        /\ out.st.Orders[a[1]].member_code = a[2]
        /\ out.st.Orders[a[1]].institution_code = a[3]

\* C31 as stated: every command of the order pallets given an over-long order
\* code, member code or institution code fails with StringConversionError and
\* changes nothing; identifiers of at most the maximum length are stored as
\* given.
C31_OverLongGetsStringConversionError ==
    \A who \in AccountId :
        /\ \A c \in C31_OrderCodeCommands(who, Bytes(MaxOrderCodeLength + 1)) :
               c[2].res = "StringConversionError" /\ c[2].st = Begin(c[1])
        /\ \A a \in C31_C2cCreates :
               LET out == c2c_create_order(who, a[1], a[2], a[3], a[4], a[5], a[6]) IN
               /\ C31_OverLong(a) =>
                      out.res = "StringConversionError" /\ out.st = Begin(c2c_order)
               /\ C31_StoredAsGiven(out, a)
        /\ \A a \in C31_OrdCreates :
               LET out == ord_create_order(who, a[1], a[2], a[3], a[4], a[5], a[6], a[7], a[8]) IN
               /\ C31_OverLong(a) =>
                      out.res = "StringConversionError" /\ out.st = Begin(ord_order)
               /\ C31_StoredAsGiven(out, a)

\* The checks create_order makes between the conversion of the order code and
\* the conversion of the member and institution codes all pass.
C31_C2cReachesConversion(a) ==
    a[1] \notin DOMAIN c2c_order.Orders /\ a[4] \in {0, 1} /\ a[5] > 0 /\ a[6] >= a[5]
C31_OrdReachesConversion(a) ==
    a[1] \notin DOMAIN ord_order.Orders /\ a[8] # <<>>

\* C31, amended: an over-long order code makes every command fail with
\* StringConversionError; a create_order with an over-long member code or
\* institution code never succeeds, and fails with StringConversionError
\* whenever the checks made before those conversions pass; nothing changes in
\* either case.  A create_order whose three identifiers are at most the maximum
\* length is never refused with StringConversionError, and when it succeeds
\* the identifiers are stored as given.
C31_OverLongNeverStored ==
    \A who \in AccountId :
        /\ \A c \in C31_OrderCodeCommands(who, Bytes(MaxOrderCodeLength + 1)) :
               c[2].res = "StringConversionError" /\ c[2].st = Begin(c[1])
        /\ \A a \in C31_C2cCreates :
               LET out == c2c_create_order(who, a[1], a[2], a[3], a[4], a[5], a[6]) IN
               /\ C31_OverLong(a) => out.res # "Ok" /\ out.st = Begin(c2c_order)
               /\ Len(a[1]) > MaxOrderCodeLength => out.res = "StringConversionError"
               /\ C31_OverLong(a) /\ C31_C2cReachesConversion(a)
                      => out.res = "StringConversionError"
               /\ ~C31_OverLong(a) => out.res # "StringConversionError"
               /\ C31_StoredAsGiven(out, a)
        /\ \A a \in C31_OrdCreates :
               LET out == ord_create_order(who, a[1], a[2], a[3], a[4], a[5], a[6], a[7], a[8]) IN
               /\ C31_OverLong(a) => out.res # "Ok" /\ out.st = Begin(ord_order)
               /\ Len(a[1]) > MaxOrderCodeLength => out.res = "StringConversionError"
               /\ C31_OverLong(a) /\ C31_OrdReachesConversion(a)
                      => out.res = "StringConversionError"
               /\ ~C31_OverLong(a) => out.res # "StringConversionError"
               /\ C31_StoredAsGiven(out, a)

\* create_order has just stored an order whose order code and member code have
\* exactly the maximum length and whose institution code is empty; a second
\* create under that order code with an over-long member code is refused.
C31_Witness ==
    /\ pallet = "c2c-order"
    /\ last = [call |-> "create_order", key |-> Bytes(MaxOrderCodeLength)]
    /\ Bytes(MaxOrderCodeLength) \in DOMAIN c2c_order.Orders
    /\ LET order == c2c_order.Orders[Bytes(MaxOrderCodeLength)] IN
       /\ order.order_code = Bytes(MaxOrderCodeLength)
       /\ order.member_code = Bytes(MaxMemberCodeLength)
       /\ order.institution_code = Bytes(0)
    /\ c2c_create_order("bob", Bytes(MaxOrderCodeLength), Bytes(MaxMemberCodeLength + 1),
                        Bytes(0), 1, 1, 1).res = "OrderCodeAlreadyExists"
    /\ c2c_create_order("bob", Bytes(0), Bytes(MaxMemberCodeLength + 1),
                        Bytes(0), 1, 1, 1).res = "StringConversionError"

\* In storage S of an order pallet every order carries the key it is stored
\* under, and each command cmd = <<key addressed, outcome>> leaves the named
\* fields of every order it leaves stored, and the whole record of every order
\* under another key, as they are, and stores nothing under another key.
C32_Frame(S, commands, fields) ==
    /\ \A k \in DOMAIN S.Orders : S.Orders[k].order_code = k
    /\ \A cmd \in commands :
           /\ DOMAIN cmd[2].st.Orders \subseteq DOMAIN S.Orders \cup {cmd[1]}
           /\ \A k \in DOMAIN S.Orders :
                  /\ k \in DOMAIN cmd[2].st.Orders =>
                         \A f \in fields : cmd[2].st.Orders[k][f] = S.Orders[k][f]
                  /\ k # cmd[1] =>
                         k \in DOMAIN cmd[2].st.Orders /\ cmd[2].st.Orders[k] = S.Orders[k]

\* C32: in the order and c2c-order pallets a stored order's order_code equals
\* its key; no command changes the order_code, member_code, institution_code,
\* creator, created_time or amounts of an order that stays stored; a command
\* addressed to key k leaves every record under another key unchanged.
C32_ImmutableFields ==
    /\ C32_Frame(c2c_order, C22_C2cCommands,
                 {"order_code", "member_code", "institution_code", "creator", "created_time",
                  "direction", "transaction_amount", "total_amount"})
    /\ C32_Frame(ord_order, C22_OrdCommands,
                 {"order_code", "member_code", "institution_code", "creator", "created_time",
                  "total_amount", "total_weight", "freight", "items"})

\* Two c2c orders are stored; a status command has just changed the first, in
\* a later block than its creation.
C32_Witness ==
    /\ pallet = "c2c-order"
    /\ last.call \in {"update_order_status", "cancel_order", "complete_order"}
    /\ last.key \in DOMAIN c2c_order.Orders
    /\ c2c_order.Orders[last.key].created_time < c2c_order.Orders[last.key].updated_time
    /\ c2c_order.Orders[last.key].updated_time = now
    /\ \E k \in DOMAIN c2c_order.Orders : k # last.key

\* The storage an outcome leaves, its events left out.
C33_Storage(out) == [f \in DOMAIN c2c_order |-> out.st[f]]

\* C33: in c2c-order every status change made by cancel_order or
\* complete_order is an edge of the transition graph of update_order_status:
\* whenever cancel_order (complete_order) succeeds from status S, the pair
\* <<S, Cancelled>> (<<S, Completed>>) is in the graph and update_order_status
\* to that status by the same caller succeeds too, leaving the same storage;
\* so every status change any of the three commands makes is an edge of the
\* graph.
C33_CancelCompleteWithinGraph ==
    /\ \A who \in AccountId, k \in DOMAIN c2c_order.Orders :
           LET from == c2c_order.Orders[k].status IN
           /\ c2c_cancel_order(who, k).res = "Ok" =>
                  /\ <<from, "Cancelled">> \in C6_Graph
                  /\ c2c_validate_status_transition(from, "Cancelled")
                  /\ c2c_update_order_status(who, k, 4).res = "Ok"
                  /\ C33_Storage(c2c_update_order_status(who, k, 4))
                         = C33_Storage(c2c_cancel_order(who, k))
           /\ c2c_complete_order(who, k).res = "Ok" =>
                  /\ <<from, "Completed">> \in C6_Graph
                  /\ c2c_validate_status_transition(from, "Completed")
                  /\ c2c_update_order_status(who, k, 5).res = "Ok"
                  /\ C33_Storage(c2c_update_order_status(who, k, 5))
                         = C33_Storage(c2c_complete_order(who, k))
    /\ \A cmd \in C22_C2cCommands :
           \A k \in DOMAIN c2c_order.Orders \cap DOMAIN cmd[2].st.Orders :
               cmd[2].st.Orders[k].status # c2c_order.Orders[k].status =>
                   <<c2c_order.Orders[k].status, cmd[2].st.Orders[k].status>> \in C6_Graph

\* A Notarizing order, reached by update_order_status, that its creator can
\* complete with complete_order.
C33_Witness ==
    /\ last.call = "update_order_status"
    /\ last.key \in DOMAIN c2c_order.Orders
    /\ c2c_order.Orders[last.key].status = "Notarizing"
    /\ c2c_complete_order(c2c_order.Orders[last.key].creator, last.key).res = "Ok"
    /\ c2c_cancel_order(c2c_order.Orders[last.key].creator, last.key).res
           = "InvalidStatusTransition"

\* The pairs the two validate_status_transition functions accept.
C34_C2cEdges ==
    {e \in C2cOrderStatus \X C2cOrderStatus : c2c_validate_status_transition(e[1], e[2])}
C34_OrdEdges ==
    {e \in OrdOrderStatus \X OrdOrderStatus : ord_validate_status_transition(e[1], e[2])}

\* The status sequences of n changes along the given edges, from any status.
RECURSIVE C34_Walks(_, _, _)
C34_Walks(statuses, edges, n) ==
    IF n = 0 THEN {<<s>> : s \in statuses}
    ELSE {Append(p[1], p[2][2]) :
            p \in {q \in C34_Walks(statuses, edges, n - 1) \X edges : q[1][Len(q[1])] = q[2][1]}}

\* Number of status changes that lead to a status at most: every edge of the
\* graphs goes to a status of higher rank.
C34_C2cRank ==
    [Pending |-> 0, Paid |-> 1, Delivered |-> 2, Notarizing |-> 3, Cancelled |-> 4,
     Completed |-> 4]
C34_OrdRank ==
    [Pending |-> 0, Paid |-> 1, Delivered |-> 2, Completed |-> 3, Cancelled |-> 4,
     Refunded |-> 4]

\* Every status change a command makes to an order that stays stored raises
\* the rank of its status, and a newly stored order has rank 0.
C34_RankRises(S, commands, rank) ==
    \A cmd \in commands : \A k \in DOMAIN cmd[2].st.Orders :
        IF k \in DOMAIN S.Orders
        THEN cmd[2].st.Orders[k].status # S.Orders[k].status =>
                 rank[cmd[2].st.Orders[k].status] > rank[S.Orders[k].status]
        ELSE rank[cmd[2].st.Orders[k].status] = 0

\* C34: both order transition graphs are acyclic and their longest status
\* sequence has 4 changes (no sequence of 5 changes exists), namely Pending,
\* Paid, Delivered, Notarizing, Completed in c2c-order and Pending, Paid,
\* Delivered, Completed, Refunded in the plain order pallet; every status
\* change any command makes moves the order to a status of strictly higher
\* rank among 0..4, starting from rank 0 at creation, so between creation and
\* deletion an order changes status at most 4 times and never returns to a
\* status it has left.
C34_AtMostFourStatusChanges ==
    /\ C34_Walks(C2cOrderStatus, C34_C2cEdges, 5) = {}
    /\ C34_Walks(OrdOrderStatus, C34_OrdEdges, 5) = {}
    /\ C34_Walks(C2cOrderStatus, C34_C2cEdges, 4)
           = {<<"Pending", "Paid", "Delivered", "Notarizing", "Completed">>,
              <<"Pending", "Paid", "Delivered", "Notarizing", "Cancelled">>}
    /\ C34_Walks(OrdOrderStatus, C34_OrdEdges, 4)
           = {<<"Pending", "Paid", "Delivered", "Completed", "Refunded">>}
    /\ C34_RankRises(c2c_order, C22_C2cCommands, C34_C2cRank)
    /\ C34_RankRises(ord_order, C22_OrdCommands, C34_OrdRank)

\* update_order_status has just brought a plain order to Refunded, the end of
\* the longest sequence: no command of any caller changes its status further.
C34_Witness ==
    /\ pallet = "order"
    /\ last.call = "update_order_status"
    /\ last.key \in DOMAIN ord_order.Orders
    /\ ord_order.Orders[last.key].status = "Refunded"
    /\ \A cmd \in C22_OrdCommands :
           last.key \in DOMAIN cmd[2].st.Orders =>
               cmd[2].st.Orders[last.key].status = "Refunded"

\* The outcome of delete_order(who, order_code) dispatched on the storage that
\* the successful call `created` left.
C35_ThenDelete(created, who, order_code) ==
    LET S == Begin([f \in DOMAIN c2c_order |-> created.st[f]])
    IN with_storage_layer(S, c2c_delete_order_body(S, who, order_code))

\* C35: in c2c-order a successful create_order of a fresh key, immediately
\* followed by delete_order of that key by the same caller, is followed by a
\* successful delete that restores Orders, UserOrders, InstitutionOrders and
\* OrdersByStatus to exactly what they were before the create.
C35_CreateThenDeleteRestores ==
    \A who \in AccountId, a \in C2cCreateInputs :
        LET created == c2c_create_order(who, a[1], a[2], a[3], a[4], a[5], a[6])
            deleted == C35_ThenDelete(created, who, a[1])
        IN created.res = "Ok" =>
            /\ a[1] \notin DOMAIN c2c_order.Orders
            /\ deleted.res = "Ok"
            /\ [f \in DOMAIN c2c_order |-> deleted.st[f]] = c2c_order

\* An order is stored and a create_order of a fresh key that shares its
\* member, institution and Pending buckets succeeds.
C35_Witness ==
    \E who \in AccountId, a \in C2cCreateInputs :
        LET created == c2c_create_order(who, a[1], a[2], a[3], a[4], a[5], a[6]) IN
        /\ created.res = "Ok"
        /\ Len(c2c_order.UserOrders[a[2]]) = 1
        /\ Len(c2c_order.InstitutionOrders[a[3]]) = 1
        /\ Len(c2c_order.OrdersByStatus["Pending"]) = 1
        /\ Len(created.st.UserOrders[a[2]]) = 2
        /\ C35_ThenDelete(created, who, a[1]).res = "Ok"

\* min(a, b)
C36_Min(a, b) == IF a <= b THEN a ELSE b

\* C36: purchase_product by any signed caller succeeds iff the product exists,
\* is Available and has stock_quantity >= quantity; on success stock_quantity
\* decreases by exactly quantity, sales_quantity becomes
\* min(U32_MAX, sales_quantity + quantity) and nothing else changes; on an
\* Unavailable product it fails with ProductNotFound, on insufficient stock
\* with InsufficientStock, and then nothing changes; stock_quantity is never
\* negative.
C36_PurchaseMovesStockToSales ==
    /\ \A k \in DOMAIN prod_product.Products : prod_product.Products[k].stock_quantity >= 0
    /\ \A who \in AccountId, k \in PairInputs(ProductCode, MaxProductCodeLength),
          quantity \in 0..U32_MAX :
           LET out == prod_purchase_product(who, k[1], k[2], quantity)
               exists == k \in DOMAIN prod_product.Products
               product == prod_product.Products[k]
           IN
           /\ out.res = "Ok" <=>
                  exists /\ product.status = "Available" /\ product.stock_quantity >= quantity
           /\ out.res = "Ok" =>
                  [f \in DOMAIN prod_product |-> out.st[f]] =
                      [prod_product EXCEPT
                          !.Products[k].stock_quantity = @ - quantity,
                          !.Products[k].sales_quantity = C36_Min(U32_MAX, @ + quantity)]
           /\ out.res # "Ok" => [f \in DOMAIN prod_product |-> out.st[f]] = prod_product
           /\ exists /\ product.status = "Unavailable" => out.res = "ProductNotFound"
           /\ exists /\ product.status = "Available" /\ product.stock_quantity < quantity
                  => out.res = "InsufficientStock"

\* A product whose sales_quantity purchases have brought to U32_MAX is in
\* stock again: an account that is not its creator purchases one more unit and
\* sales_quantity saturates.
C36_Witness ==
    \E k \in DOMAIN prod_product.Products :
        LET product == prod_product.Products[k]
            out == prod_purchase_product("bob", k[1], k[2], 1)
        IN /\ product.sales_quantity = U32_MAX
           /\ product.creator # "bob"
           /\ out.res = "Ok"
           /\ out.st.Products[k].sales_quantity = U32_MAX
           /\ out.st.Products[k].stock_quantity = product.stock_quantity - 1

\* What C37 says of trade_token(who, k, quantity) on a stored Available token,
\* with `sold` the sales_quantity a successful Sell trade is to leave.
C37_Trade(who, k, quantity, sold) ==
    LET token == c2c_token.Tokens[k]
        out == tok_trade_token(who, k[1], k[2], quantity)
        after == [f \in DOMAIN c2c_token |-> out.st[f]]
    IN
    IF token.status # "Available"
    THEN out.res = "TokenNotFound" /\ after = c2c_token
    ELSE IF token.token_trade_direction = "Sell"
    THEN /\ out.res = "Ok" <=> token.stock_quantity >= quantity
         /\ out.res # "Ok" => out.res = "InsufficientStock" /\ after = c2c_token
         /\ out.res = "Ok" =>
                after = [c2c_token EXCEPT !.Tokens[k].stock_quantity = @ - quantity,
                                          !.Tokens[k].sales_quantity = sold]
    ELSE /\ out.res \in {"Ok", "UserTokenListFull"}
         /\ out.res = "UserTokenListFull" =>
                ~contains(c2c_token.UserTokens[who], k) /\ after = c2c_token
         /\ out.res = "Ok" =>
                after = [c2c_token EXCEPT
                            !.Tokens[k].stock_quantity = C36_Min(U32_MAX, @ + quantity),
                            !.UserTokens[who] = IF contains(@, k) THEN @ ELSE Append(@, k)]

\* C37 as stated: trade_token on an Available token in Sell direction succeeds
\* iff stock_quantity >= quantity and then moves quantity from stock_quantity
\* to sales_quantity, touching no UserTokens bucket; in Buy direction it raises
\* stock_quantity by quantity, saturating at U32_MAX, leaves sales_quantity
\* unchanged and adds the pair to the caller's UserTokens bucket only if it is
\* not there; on an Unavailable token it fails with TokenNotFound and changes
\* nothing.
C37_SellMovesQuantity ==
    \A who \in AccountId, k \in DOMAIN c2c_token.Tokens, quantity \in 0..U32_MAX :
        C37_Trade(who, k, quantity, c2c_token.Tokens[k].sales_quantity + quantity)

\* C37, amended: as above, except that a Sell trade leaves sales_quantity =
\* min(U32_MAX, sales_quantity + quantity), and that a Buy trade by a caller
\* whose full UserTokens bucket lacks the pair fails with UserTokenListFull
\* and changes nothing.
C37_SellSaturatesSales ==
    \A who \in AccountId, k \in DOMAIN c2c_token.Tokens, quantity \in 0..U32_MAX :
        C37_Trade(who, k, quantity,
                  C36_Min(U32_MAX, c2c_token.Tokens[k].sales_quantity + quantity))

\* A Sell token whose sales_quantity trades have brought to U32_MAX is in stock
\* again, and an account that is not its creator trades one more unit.
C37_Witness ==
    \E k \in DOMAIN c2c_token.Tokens :
        LET token == c2c_token.Tokens[k]
            out == tok_trade_token("bob", k[1], k[2], 1)
        IN /\ token.token_trade_direction = "Sell"
           /\ token.sales_quantity = U32_MAX
           /\ token.creator # "bob"
           /\ out.res = "Ok"
           /\ out.st.Tokens[k].sales_quantity = U32_MAX
           /\ out.st.Tokens[k].stock_quantity = token.stock_quantity - 1

\* C38: every stored PaymentMethod record has at least one of its four fields
\* (wechat, alipay, token, other) set, in every state that
\* set_payment_method, update_payment_field and remove_payment_method reach.
C38_StoredMethodHasAField ==
    \A institution_id \in DOMAIN payment_method.PaymentMethods :
        LET method == payment_method.PaymentMethods[institution_id]
        IN \/ method.wechat # None
           \/ method.alipay # None
           \/ method.token # None
           \/ method.other # None

\* The status a valid code of update_institution_status stands for, and the
\* one a valid code of update_token_status / update_product_status stands for.
C39_InstitutionStatus(code) ==
    CASE code = 0 -> "Certified" [] code = 1 -> "NotCertified" [] code = 2 -> "Deactivated"
C39_ListingStatus(code) == IF code = 0 THEN "Available" ELSE "Unavailable"

\* Every successful create stores the initial status.
C39_CreatedStatus ==
    /\ \A who \in AccountId, a \in InstCreateInputs :
           LET out == inst_create_institution(who, a)
           IN out.res = "Ok" => out.st.Institutions[a[1]].status = "NotCertified"
    /\ \A who \in AccountId, a \in TokCreateInputs :
           LET out == tok_create_token(who, a[1], a[2], a[3], a[4], a[5], a[6], a[7])
           IN out.res = "Ok" => out.st.Tokens[<<a[1], a[2]>>].status = "Available"
    /\ \A who \in AccountId, a \in ProdCreateInputs :
           LET out == prod_create_product(who, a)
           IN out.res = "Ok" => out.st.Products[<<a[1], a[2]>>].status = "Available"

\* The creator's status update of the stored record k of `store` (records in
\* field `map`), run as `out` with the code `code` of which `valid` are the
\* valid ones and `status` the decoding: a valid code succeeds whatever the
\* current status and sets the status it stands for, any other code fails
\* with InvalidStatus and changes nothing.
C39_Unguarded(store, map, k, out, code, valid, status) ==
    LET after == [f \in DOMAIN store |-> out.st[f]]
    IN IF code \in valid
       THEN /\ out.res = "Ok"
            /\ after = [store EXCEPT ![map][k].status = status]
       ELSE out.res = "InvalidStatus" /\ after = store

\* C39: institutions are created NotCertified and tokens and products
\* Available, and afterwards the creator's update_institution_status,
\* update_token_status and update_product_status succeed with every valid
\* code from every current status and set the status of the code, the same
\* status and Deactivated -> Certified included; a code out of range fails
\* with InvalidStatus and leaves the record unchanged.
C39_StatusChangesAreUnguarded ==
    /\ C39_CreatedStatus
    /\ \A k \in DOMAIN inst_institution.Institutions, code \in 0..3 :
           C39_Unguarded(inst_institution, "Institutions", k,
               inst_update_institution_status(inst_institution.Institutions[k].creator, k, code),
               code, 0..2, C39_InstitutionStatus(code))
    /\ \A k \in DOMAIN c2c_token.Tokens, code \in 0..3 :
           C39_Unguarded(c2c_token, "Tokens", k,
               tok_update_token_status(c2c_token.Tokens[k].creator, k[1], k[2], code),
               code, 0..1, C39_ListingStatus(code))
    /\ \A k \in DOMAIN prod_product.Products, code \in 0..3 :
           C39_Unguarded(prod_product, "Products", k,
               prod_update_product_status(prod_product.Products[k].creator, k[1], k[2], code),
               code, 0..1, C39_ListingStatus(code))

\* A Deactivated institution whose creator can certify it again.
C39_Witness ==
    \E k \in DOMAIN inst_institution.Institutions :
        LET institution == inst_institution.Institutions[k]
            out == inst_update_institution_status(institution.creator, k, 0)
        IN /\ institution.status = "Deactivated"
           /\ last.call = "update_institution_status"
           /\ out.res = "Ok"
           /\ out.st.Institutions[k].status = "Certified"

\* The exact sum, over the first n items, of field * quantity.
RECURSIVE C40_Sum(_, _, _)
C40_Sum(items, field, n) ==
    IF n = 0 THEN 0 ELSE C40_Sum(items, field, n - 1) + items[n][field] * items[n].quantity

\* Item lists of create_order: none, one or MaxOrderItems items whose
\* quantity, price and weight are small or large enough for the products and
\* the sums to pass U32_MAX.
C40_Item == [product_code : {Bytes(1)}, quantity : {1, 2}, price_per_unit : {1, 2}, weight : {1, 2}]
C40_Items == UNION {[1..n -> C40_Item] : n \in 0..MaxOrderItems}

\* The outcome of create_order for an order code, a freight and an item list,
\* the other arguments well-formed.
C40_Create(order_code, freight, items) ==
    ord_create_order("alice", order_code, Bytes(0), Bytes(0), freight, None, None, None, items)

\* A successful create_order stores the saturated totals; a failed one with
\* an empty item list changes nothing.
C40_Totals(order_code, freight, items) ==
    LET out == C40_Create(order_code, freight, items)
        order == out.st.Orders[order_code]
    IN /\ out.res = "Ok" =>
            /\ items # <<>>
            /\ order.total_amount =
                   C36_Min(U32_MAX, freight + C40_Sum(items, "price_per_unit", Len(items)))
            /\ order.total_weight = C36_Min(U32_MAX, C40_Sum(items, "weight", Len(items)))
            /\ order.items = items /\ order.freight = freight
       /\ items = <<>> => out.st = Begin(ord_order)

\* C40 as stated: create_order rejects an empty item list with
\* EmptyOrderItems, and otherwise stores total_amount = min(U32_MAX, freight
\* + sum of price_per_unit * quantity) and total_weight = min(U32_MAX, sum of
\* weight * quantity).
C40_EmptyItemsGetEmptyOrderItems ==
    \A order_code \in OrderCodeInputs, freight \in {0, 1, U32_MAX}, items \in C40_Items :
        /\ C40_Totals(order_code, freight, items)
        /\ items = <<>> => C40_Create(order_code, freight, items).res = "EmptyOrderItems"

\* C40, amended: create_order with an empty item list never succeeds and
\* changes nothing, and fails with EmptyOrderItems when its order code fits
\* and is not stored yet (an over-long order code fails with
\* StringConversionError, a stored one with OrderCodeAlreadyExists); a
\* successful create_order stores total_amount = min(U32_MAX, freight + sum
\* of price_per_unit * quantity) and total_weight = min(U32_MAX, sum of
\* weight * quantity).
C40_TotalsSaturate ==
    \A order_code \in OrderCodeInputs, freight \in {0, 1, U32_MAX}, items \in C40_Items :
        /\ C40_Totals(order_code, freight, items)
        /\ items = <<>> =>
              C40_Create(order_code, freight, items).res =
                  IF ~try_from_ok(order_code, MaxOrderCodeLength) THEN "StringConversionError"
                  ELSE IF contains_key(ord_order.Orders, order_code) THEN "OrderCodeAlreadyExists"
                  ELSE "EmptyOrderItems"

\* Beside a stored order, a create_order of two items whose amounts sum to 9
\* with freight and whose weights sum to 8 succeeds and stores U32_MAX twice.
C40_Witness ==
    \E order_code \in OrderCode :
        LET item == [product_code |-> Bytes(1), quantity |-> 2, price_per_unit |-> 2, weight |-> 2]
            out == C40_Create(order_code, 1, <<item, item>>)
        IN /\ ord_order.Orders # EmptyMap
           /\ out.res = "Ok"
           /\ 1 + C40_Sum(<<item, item>>, "price_per_unit", 2) > U32_MAX
           /\ out.st.Orders[order_code].total_amount = U32_MAX
           /\ out.st.Orders[order_code].total_weight = U32_MAX
====
